---- MODULE Spec2Model ----
(***************************************************************************)
(* Collision detection and response service of Lithosphere                 *)
(* (src/unnamed/part_002, lines 146-439), with the energy helpers and the  *)
(* physics presets of src/services/vectorVisualizationService.ts, the      *)
(* trail renderer of src/services/trailService.ts and the story playback   *)
(* of src/src/features/GeologicalStory/index.ts.                           *)
(*                                                                         *)
(* JavaScript numbers are binary floating point.  The model keeps that:    *)
(* a number is an integer count of quanta of 2^-FracBits, every arithmetic *)
(* operation computes the exact result and rounds it to the nearest number *)
(* with at most MantBits significant bits (ties to even), as IEEE-754      *)
(* does with 53 bits.  THREE.Vector3 methods are composed from these       *)
(* operations in the order three.js evaluates them.  Infinity, -Infinity   *)
(* and NaN are three reserved values with the IEEE-754 rules for them;     *)
(* zero is unsigned, and a zero divisor counts as +0 (every divisor of the *)
(* code is a mass, a length, a count or a maximum, never a negative zero). *)
(***************************************************************************)
EXTENDS Integers, Sequences, FiniteSets, TLC

\* ------------------------------------------------------------------ bounds
FracBits == 12      \* quantum of the number format is 2^-FracBits
MantBits == 8       \* significant bits kept by every operation
MaxInst  == 3       \* longest instance array

\* ------------------------------------------------------- number arithmetic
\* The library layer (numbers and THREE.Vector3) is written as functions, so
\* that every operand is evaluated once, as an argument is in JavaScript.
One == 2^FracBits

Abs[n \in Int] == IF n < 0 THEN -n ELSE n
Sgn[n \in Int] == IF n < 0 THEN -1 ELSE IF n > 0 THEN 1 ELSE 0

BitLen[n \in Nat] == IF n = 0 THEN 0 ELSE 1 + BitLen[n \div 2]

\* num/den (num >= 0, den > 0) rounded to the nearest integer, ties to even
RoundHalfEven[num \in Nat, den \in Nat] ==
  LET q == num \div den
      r == num % den
  IN  IF 2 * r > den \/ (2 * r = den /\ q % 2 = 1) THEN q + 1 ELSE q

\* the representable number nearest to num/den quanta (den > 0): at most
\* MantBits significant bits, and a whole number of quanta
RoundMag[m \in Nat, den \in Nat, e \in Nat] ==
  IF e > MantBits
  THEN RoundHalfEven[m, den * 2^(e - MantBits)] * 2^(e - MantBits)
  ELSE RoundHalfEven[m, den]
RoundRat[num \in Int, den \in Nat] ==
  Sgn[num] * RoundMag[Abs[num], den, BitLen[Abs[num] \div den]]

\* a decimal literal given in thousandths, as the parser rounds it
Num[milli \in Int] == RoundRat[milli * One, 1000]

\* Infinity, -Infinity and NaN
PosInf == 2^29
NegInf == -PosInf
NaN    == 2^30
Finite(a) == NegInf < a /\ a < PosInf
\* a < b and a > b are false when an operand is NaN
FLt[a \in Int, b \in Int] == a # NaN /\ b # NaN /\ a < b
FGt[a \in Int, b \in Int] == a # NaN /\ b # NaN /\ a > b

FNeg[a \in Int] == IF a = NaN THEN NaN ELSE -a
FAdd[a \in Int, b \in Int] ==
  IF a = NaN \/ b = NaN THEN NaN
  ELSE IF Finite(a) /\ Finite(b) THEN RoundRat[a + b, 1]
  ELSE IF Finite(b) THEN a
  ELSE IF Finite(a) \/ a = b THEN b
  ELSE NaN
FSub[a \in Int, b \in Int] == FAdd[a, FNeg[b]]

\* A number is m * 2^t with m odd (or 0): products and quotients are formed
\* from the odd parts, so that the exact result stays in range.
TrailZ[n \in Nat] == IF n = 0 \/ n % 2 = 1 THEN 0 ELSE 1 + TrailZ[n \div 2]
OddPart[n \in Nat] == n \div 2^TrailZ[n]
Min2[a \in Int, b \in Int] == IF a <= b THEN a ELSE b

\* m * 2^k quanta, rounded
MulParts[m \in Nat, k \in Int] ==
  IF k >= 0 THEN RoundRat[m * 2^k, 1] ELSE RoundRat[m, 2^(-k)]
FMul[a \in Int, b \in Int] ==
  IF a = NaN \/ b = NaN THEN NaN
  ELSE IF Finite(a) /\ Finite(b)
  THEN Sgn[a] * Sgn[b] * MulParts[OddPart[Abs[a]] * OddPart[Abs[b]],
                                  TrailZ[Abs[a]] + TrailZ[Abs[b]] - FracBits]
  ELSE IF a = 0 \/ b = 0 THEN NaN
  ELSE Sgn[a] * Sgn[b] * PosInf

\* ma * 2^k / mb quanta, rounded; kk binary places decide the rounding
DivScaled[ma \in Nat, mb \in Nat, k \in Nat, kk \in Nat] ==
  RoundRat[ma * 2^kk, mb] * 2^(k - kk)
DivParts[ma \in Nat, mb \in Nat, k \in Int] ==
  IF k < 0 THEN RoundRat[ma, mb * 2^(-k)]
  ELSE DivScaled[ma, mb, k, Min2[k, MantBits + 2 + BitLen[mb]]]
FDiv[a \in Int, b \in Int] ==
  IF a = NaN \/ b = NaN THEN NaN
  ELSE IF Finite(a) /\ Finite(b)
  THEN IF b = 0 THEN (IF a = 0 THEN NaN ELSE Sgn[a] * PosInf)
       ELSE Sgn[a] * Sgn[b] * DivParts[OddPart[Abs[a]], OddPart[Abs[b]],
                                       TrailZ[Abs[a]] + FracBits - TrailZ[Abs[b]]]
  ELSE IF Finite(a) THEN 0
  ELSE IF Finite(b) THEN Sgn[a] * (IF b < 0 THEN -1 ELSE 1) * PosInf
  ELSE NaN
\* Math.max of two numbers: NaN when either is
FMax[a \in Int, b \in Int] ==
  IF a = NaN \/ b = NaN THEN NaN ELSE IF a >= b THEN a ELSE b

\* floor of the square root of n, searched in lo..hi
IsqrtIn[n \in Nat, lo \in Nat, hi \in Nat] ==
  IF lo >= hi THEN lo
  ELSE LET mid == (lo + hi + 1) \div 2
       IN  IF mid * mid <= n THEN IsqrtIn[n, mid, hi] ELSE IsqrtIn[n, lo, mid - 1]

\* granule of a number of magnitude r: 1 quantum, or more beyond MantBits bits
Granule[r \in Nat] == IF BitLen[r] > MantBits THEN 2^(BitLen[r] - MantBits) ELSE 1

\* sqrt(n) between m * g and (m + 1) * g, rounded to the nearer (ties to even)
SqrtRound[n \in Nat, m \in Nat, g \in Nat] ==
  LET h == m * g + g \div 2
      up == IF g = 1 THEN n > m * m + m
            ELSE n > h * h \/ (n = h * h /\ m % 2 = 1)
  IN  (IF up THEN m + 1 ELSE m) * g

SqrtFloor[n \in Nat, r \in Nat] == SqrtRound[n, r \div Granule[r], Granule[r]]

\* Math.sqrt: the representable number nearest to the square root
SqrtOf[n \in Nat] == SqrtFloor[n, IsqrtIn[n, 0, 46340]]
\* sqrt(m * 2^x) for large arguments: m * 2^x = (m or 2m) * 4^t, and
\* MantBits + 1 binary places of the root of the first factor decide the rounding
SqrtParts[m \in Nat, x \in Nat] ==
  SqrtOf[(IF x % 2 = 1 THEN 2 * m ELSE m) * 4^(MantBits + 1)]
    * 2^((x \div 2) - (MantBits + 1))
FSqrt[s \in Nat] ==
  IF s = NaN \/ s = PosInf THEN s
  ELSE IF s < 2^(30 - FracBits) THEN SqrtOf[s * One]
  ELSE SqrtParts[OddPart[s], TrailZ[s] + FracBits]

\* ------------------------------------------------------ THREE.Vector3 (lib)
Vector3 == [x : Int, y : Int, z : Int]
Vec(x, y, z) == [x |-> x, y |-> y, z |-> z]
ZeroVec == Vec(0, 0, 0)

subVectors[a \in Vector3, b \in Vector3] ==
  Vec(FSub[a.x, b.x], FSub[a.y, b.y], FSub[a.z, b.z])
addVectors[a \in Vector3, b \in Vector3] ==
  Vec(FAdd[a.x, b.x], FAdd[a.y, b.y], FAdd[a.z, b.z])
multiplyScalar[v \in Vector3, s \in Int] ==
  Vec(FMul[v.x, s], FMul[v.y, s], FMul[v.z, s])
\* Math.sqrt(x * x + y * y + z * z)
length[v \in Vector3] ==
  FSqrt[FAdd[FAdd[FMul[v.x, v.x], FMul[v.y, v.y]], FMul[v.z, v.z]]]
dot[a \in Vector3, b \in Vector3] ==
  FAdd[FAdd[FMul[a.x, b.x], FMul[a.y, b.y]], FMul[a.z, b.z]]
\* normalize() is divideScalar(length() || 1), which is multiplyScalar(1 / s)
divideScalar[v \in Vector3, s \in Int] == multiplyScalar[v, FDiv[One, s]]
OrOne[l \in Int] == IF l = 0 \/ l = NaN THEN One ELSE l
normalize[v \in Vector3] == divideScalar[v, OrOne[length[v]]]
distanceTo[a \in Vector3, b \in Vector3] == length[subVectors[a, b]]

\* ------------------------------------------------------------- literals
Half      == One \div 2          \* 0.5
MinDist   == Num[1]              \* 0.001, line 204
MassFloor == Num[100]            \* 0.1, lines 267 and 269
KickScale == Num[300]            \* 0.3, line 277

\* ------------------------------------------------- collision service
\* faulty variant: touching spheres count as colliding
sphereTestInclusive(diff, distance, combinedRadius) ==
  IF ~FGt[distance, combinedRadius] /\ distance # NaN /\ combinedRadius # NaN
     /\ FGt[distance, MinDist]
  THEN [collided |-> TRUE,
        overlap  |-> FSub[combinedRadius, distance],
        normal   |-> normalize[diff]]
  ELSE [collided |-> FALSE, overlap |-> 0, normal |-> ZeroVec]

\* lines 204-216: the verdict on a pair from its center difference
sphereTest(diff, distance, combinedRadius) ==
  IF FLt[distance, combinedRadius] /\ FGt[distance, MinDist]
  THEN [collided |-> TRUE,
        overlap  |-> FSub[combinedRadius, distance],
        normal   |-> normalize[diff]]
  ELSE [collided |-> FALSE, overlap |-> 0, normal |-> ZeroVec]

\* lines 196-217
checkSphereSphereCollision(a, b) ==
  LET diff == subVectors[b.position, a.position]
  IN  sphereTest(diff, length[diff], FAdd[a.radius, b.radius])

\* faulty variant: each body's velocity is weighted with its own mass
bounceImpulseOwnMass(a, b, normal, velocityAlongNormal, elasticity) ==
  LET totalMass == FAdd[a.mass, b.mass]
      impulse == FDiv[FMul[FNeg[FAdd[One, elasticity]], velocityAlongNormal], totalMass]
      impulseVector == multiplyScalar[normal, impulse]
  IN  [a |-> addVectors[a.velocity, multiplyScalar[impulseVector, a.mass]],
       b |-> subVectors[b.velocity, multiplyScalar[impulseVector, b.mass]]]

\* lines 241-248: the velocities after the impulse
bounceImpulse(a, b, normal, velocityAlongNormal, elasticity) ==
  LET totalMass == FAdd[a.mass, b.mass]
      impulse == FDiv[FMul[FNeg[FAdd[One, elasticity]], velocityAlongNormal], totalMass]
      impulseVector == multiplyScalar[normal, impulse]
  IN  [a |-> addVectors[a.velocity, multiplyScalar[impulseVector, b.mass]],
       b |-> subVectors[b.velocity, multiplyScalar[impulseVector, a.mass]]]

\* faulty variant: the early return taken on the other sign
bounceVelocitiesFlipped(a, b, normal, velocityAlongNormal, elasticity) ==
  IF FLt[velocityAlongNormal, 0]
  THEN [a |-> a.velocity, b |-> b.velocity]
  ELSE bounceImpulse(a, b, normal, velocityAlongNormal, elasticity)

\* lines 234-248: the velocities a bounce leaves
bounceVelocities(a, b, normal, velocityAlongNormal, elasticity) ==
  IF FGt[velocityAlongNormal, 0]
  THEN [a |-> a.velocity, b |-> b.velocity]
  ELSE bounceImpulse(a, b, normal, velocityAlongNormal, elasticity)

\* faulty variant: only a is pushed back
movedOnlyA(a, b, separation, vel) ==
  [a |-> [a EXCEPT !.position = subVectors[a.position, separation], !.velocity = vel.a],
   b |-> [b EXCEPT !.velocity = vel.b]]

\* an instance pair with new positions and velocities
moved(a, b, separation, vel) ==
  [a |-> [a EXCEPT !.position = subVectors[a.position, separation], !.velocity = vel.a],
   b |-> [b EXCEPT !.position = addVectors[b.position, separation], !.velocity = vel.b]]

\* lines 222-249
resolveBounceCollision(a, b, normal, overlap, elasticity) ==
  moved(a, b, multiplyScalar[normal, FMul[overlap, Half]],
        bounceVelocities(a, b, normal,
                         dot[subVectors[a.velocity, b.velocity], normal], elasticity))

\* lines 266-280; rnd is the pair (cos, sin) of the angle Math.random() drew
scatterVelocities(a, b, normal, force, rnd) ==
  LET perpendicular == multiplyScalar[Vec(rnd.cos, FMul[rnd.sin, Half], rnd.sin),
                                      FMul[force, KickScale]]
  IN  [a |-> addVectors[subVectors[a.velocity, multiplyScalar[normal, force]],
                        perpendicular],
       b |-> subVectors[
               addVectors[b.velocity,
                 multiplyScalar[normal,
                   FDiv[force, FMax[FDiv[b.mass, a.mass], MassFloor]]]],
               perpendicular]]

\* lines 254-281
resolveScatterCollision(a, b, normal, overlap, scatterForce, rnd) ==
  moved(a, b, multiplyScalar[normal, FMul[overlap, Half]],
        scatterVelocities(a, b, normal, FDiv[scatterForce, FMax[a.mass, MassFloor]], rnd))

\* faulty variant: merge mode falls through to the bounce response
separateOnlyThenBounce(a, b, normal, overlap) ==
  resolveBounceCollision(a, b, normal, overlap, One)

\* lines 338-344: merge mode only separates
separateOnly(a, b, normal, overlap) ==
  moved(a, b, multiplyScalar[normal, FMul[overlap, Half]],
        [a |-> a.velocity, b |-> b.velocity])

\* faulty variant: merge at the threshold itself
shouldMergeInclusive(a, b, threshold) ==
  ~FGt[distanceTo[a.position, b.position], FMul[FAdd[a.radius, b.radius], threshold]]

\* lines 286-294
shouldMerge(a, b, threshold) ==
  FLt[distanceTo[a.position, b.position], FMul[FAdd[a.radius, b.radius], threshold]]

\* lines 330-345: the switch on config.mode
resolveByMode(a, b, c, config, rnd) ==
  CASE config.mode = "bounce" ->
         resolveBounceCollision(a, b, c.normal, c.overlap, config.elasticity)
    [] config.mode = "scatter" ->
         resolveScatterCollision(a, b, c.normal, c.overlap, config.scatterForce, rnd)
    [] config.mode = "merge" -> separateOnly(a, b, c.normal, c.overlap)
    [] OTHER -> [a |-> a, b |-> b]

\* faulty variant: both ids taken from a
newEventSameId(a, b, c, env) ==
  [instanceA |-> a.id,
   instanceB |-> a.id,
   point |-> multiplyScalar[addVectors[a.position, b.position], Half],
   normal |-> c.normal,
   relativeVelocity |-> length[subVectors[a.velocity, b.velocity]],
   time |-> env.now]

\* lines 320-328
newEvent(a, b, c, env) ==
  [instanceA |-> a.id,
   instanceB |-> b.id,
   point |-> multiplyScalar[addVectors[a.position, b.position], Half],
   normal |-> c.normal,
   relativeVelocity |-> length[subVectors[a.velocity, b.velocity]],
   time |-> env.now]

\* faulty variant: the event is put at the front of the list
collidedPairUnshift(st, i, j, config, env, event, r) ==
  [instances |-> [st.instances EXCEPT ![i] = r.a, ![j] = r.b],
   events    |-> <<event>> \o st.events,
   calls     |-> IF env.hasCallback
                 THEN Append(st.calls, [event |-> event, instances |->
                               [st.instances EXCEPT ![i] = r.a, ![j] = r.b]])
                 ELSE st.calls,
   draws     |-> IF config.mode = "scatter" THEN st.draws + 1 ELSE st.draws]

\* faulty variant: onCollision is invoked before the pair is resolved
collidedPairCallFirst(st, i, j, config, env, event, r) ==
  [instances |-> [st.instances EXCEPT ![i] = r.a, ![j] = r.b],
   events    |-> Append(st.events, event),
   calls     |-> IF env.hasCallback
                 THEN Append(st.calls, [event |-> event, instances |-> st.instances])
                 ELSE st.calls,
   draws     |-> IF config.mode = "scatter" THEN st.draws + 1 ELSE st.draws]

\* lines 318-351: a colliding pair.  st carries the instance array as mutated
\* so far, the events pushed, the invocations of onCollision (the event
\* passed and the instance array as it is at that moment) and the number of
\* Math.random() draws consumed.
collidedPair(st, i, j, config, env, event, r) ==
  [instances |-> [st.instances EXCEPT ![i] = r.a, ![j] = r.b],
   events    |-> Append(st.events, event),
   calls     |-> IF env.hasCallback
                 THEN Append(st.calls, [event |-> event, instances |->
                               [st.instances EXCEPT ![i] = r.a, ![j] = r.b]])
                 ELSE st.calls,
   draws     |-> IF config.mode = "scatter" THEN st.draws + 1 ELSE st.draws]

\* lines 316-351
checkedPair(st, i, j, config, env, a, b, c) ==
  IF ~c.collided THEN st
  ELSE collidedPair(st, i, j, config, env, newEvent(a, b, c, env),
                    resolveByMode(a, b, c, config, env.rnd[(st.draws % 2) + 1]))

\* lines 313-351: one pair of the double loop
visitPair(st, i, j, config, env) ==
  checkedPair(st, i, j, config, env, st.instances[i], st.instances[j],
              checkSphereSphereCollision(st.instances[i], st.instances[j]))

\* faulty variant: the inner loop stops one short
RECURSIVE pairLoopShort(_, _, _, _, _)
pairLoopShort(st, i, j, config, env) ==
  IF i > Len(st.instances) THEN st
  ELSE IF j >= Len(st.instances) THEN pairLoopShort(st, i + 1, i + 2, config, env)
  ELSE pairLoopShort(visitPair(st, i, j, config, env), i, j + 1, config, env)

\* lines 311-312: for i in 0..n-1, for j in i+1..n-1 (indexes are 1-based here)
RECURSIVE pairLoop(_, _, _, _, _)
pairLoop(st, i, j, config, env) ==
  IF i > Len(st.instances) THEN st
  ELSE IF j > Len(st.instances) THEN pairLoop(st, i + 1, i + 2, config, env)
  ELSE pairLoop(visitPair(st, i, j, config, env), i, j + 1, config, env)

\* faulty variant: the guard needs both conditions
processCollisionsBothOff(insts, config, env) ==
  IF ~config.enabled /\ config.mode = "none"
  THEN [instances |-> insts, events |-> <<>>, calls |-> <<>>, draws |-> 0]
  ELSE pairLoop([instances |-> insts, events |-> <<>>, calls |-> <<>>, draws |-> 0],
                1, 2, config, env)

\* lines 299-356
processCollisions(insts, config, env) ==
  IF ~config.enabled \/ config.mode = "none"
  THEN [instances |-> insts, events |-> <<>>, calls |-> <<>>, draws |-> 0]
  ELSE pairLoop([instances |-> insts, events |-> <<>>, calls |-> <<>>, draws |-> 0],
                1, 2, config, env)

\* ------------------------------------- SpatialHash (part_002, lines 383-439)
\* Math.floor of a number: an integer
FloorOf[q \in Int] == IF Finite(q) THEN q \div One ELSE q

\* lines 392-397: the key is the text "cx,cy,cz" of three integers, which
\* names the triple <<cx, cy, cz>> and no other
getKey(cellSize, x, y, z) ==
  <<FloorOf[FDiv[x, cellSize]], FloorOf[FDiv[y, cellSize]], FloorOf[FDiv[z, cellSize]]>>

\* a Map with no entry
EmptyCells == [key \in {} |-> <<>>]

\* lines 410-413: cells.get(key).push(instance), after cells.set(key, []) for
\* a new key; ref is the instance object (its index in the driver's array)
pushInto(cells, key, ref) ==
  IF key \in DOMAIN cells
  THEN [cells EXCEPT ![key] = Append(@, ref)]
  ELSE [k \in DOMAIN cells \cup {key} |-> IF k = key THEN <<ref>> ELSE cells[k]]

\* lines 403-414
hashInsert(cellSize, cells, instance, ref) ==
  pushInto(cells,
           getKey(cellSize, instance.position.x, instance.position.y, instance.position.z),
           ref)

\* lines 429-432: the bucket of a key, without the entries whose id is the
\* querying instance's
cellOthers(cells, key, insts, instance) ==
  IF key \in DOMAIN cells
  THEN SelectSeq(cells[key], LAMBDA i : insts[i].id # instance.id)
  ELSE <<>>

\* lines 421-434: the three nested loops, t = 9 * (dx + 1) + 3 * (dy + 1) + dz + 1
RECURSIVE nearbyLoop(_, _, _, _, _, _)
nearbyLoop(cellSize, cells, insts, instance, t, nearby) ==
  IF t > 26 THEN nearby
  ELSE nearbyLoop(cellSize, cells, insts, instance, t + 1,
         nearby \o cellOthers(cells,
           getKey(cellSize,
                  FAdd[instance.position.x, FMul[((t \div 9) - 1) * One, cellSize]],
                  FAdd[instance.position.y, FMul[(((t \div 3) % 3) - 1) * One, cellSize]],
                  FAdd[instance.position.z, FMul[((t % 3) - 1) * One, cellSize]]),
           insts, instance))

\* lines 416-438
getNearby(cellSize, cells, insts, instance) ==
  nearbyLoop(cellSize, cells, insts, instance, 0, <<>>)

\* ------------- energy helpers (vectorVisualizationService.ts, lines 223-297)
\* Vector3.lengthSq: x * x + y * y + z * z
lengthSq[v \in Vector3] == FAdd[FAdd[FMul[v.x, v.x], FMul[v.y, v.y]], FMul[v.z, v.z]]

PotentialFloor == Num[100]      \* 0.1, line 235
EnergyFloor    == Num[1]        \* 0.001, line 291

\* lines 223-226: 0.5 * mass * velocity.lengthSq()
calculateKineticEnergy(mass, velocity) == FMul[FMul[Half, mass], lengthSq[velocity]]

\* faulty variant: the distance is not floored
calculatePotentialEnergyNoFloor(massA, massB, distance, G) ==
  FDiv[FMul[FMul[FNeg[G], massA], massB], distance]

\* lines 228-237: -G * massA * massB / distance, the distance floored at 0.1
calculatePotentialEnergy(massA, massB, distance, G) ==
  FDiv[FMul[FMul[FNeg[G], massA], massB],
       IF FLt[distance, PotentialFloor] THEN PotentialFloor ELSE distance]

\* lines 251-253: kinetic += ... over the instances from index k on
RECURSIVE kineticLoop(_, _, _)
kineticLoop(insts, k, kinetic) ==
  IF k > Len(insts) THEN kinetic
  ELSE kineticLoop(insts, k + 1,
         FAdd[kinetic, calculateKineticEnergy(insts[k].mass, insts[k].velocity)])

\* lines 256-266: potential += ... over the pairs from (i, j) on
RECURSIVE potentialLoop(_, _, _, _, _)
potentialLoop(insts, G, i, j, potential) ==
  IF i > Len(insts) THEN potential
  ELSE IF j > Len(insts) THEN potentialLoop(insts, G, i + 1, i + 2, potential)
  ELSE potentialLoop(insts, G, i, j + 1,
         FAdd[potential,
              calculatePotentialEnergy(insts[i].mass, insts[j].mass,
                distanceTo[insts[i].position, insts[j].position], G)])

\* lines 268-272
energyRecord(kinetic, potential) ==
  [kinetic |-> kinetic, potential |-> potential, total |-> FAdd[kinetic, potential]]

\* lines 239-273
calculateTotalEnergy(insts, G) ==
  energyRecord(kineticLoop(insts, 1, 0), potentialLoop(insts, G, 1, 2, 0))

\* Math.max(...values, last): -Infinity for no argument
RECURSIVE maxOf(_, _, _)
maxOf(values, k, best) ==
  IF k > Len(values) THEN best ELSE maxOf(values, k + 1, FMax[best, values[k]])

\* faulty variant: the maximum is taken without the 0.001
maxEnergyOfBare(energies) ==
  IF energies = <<>> THEN EnergyFloor
  ELSE maxOf([k \in 1..Len(energies) |-> energies[k].kinetic], 1, NegInf)

\* line 291: Math.max(...energies.map(e => e.kinetic), 0.001)
maxEnergyOf(energies) ==
  FMax[maxOf([k \in 1..Len(energies) |-> energies[k].kinetic], 1, NegInf), EnergyFloor]

\* lines 293-296
normalizedBars(energies, maxEnergy) ==
  [k \in 1..Len(energies) |->
     [energies[k] EXCEPT !.normalized = FDiv[energies[k].kinetic, maxEnergy]]]

\* lines 285-289
kineticBars(insts) ==
  [k \in 1..Len(insts) |->
     [id |-> insts[k].id,
      kinetic |-> calculateKineticEnergy(insts[k].mass, insts[k].velocity),
      normalized |-> 0]]

\* lines 278-297
createEnergyBars(insts) ==
  LET energies == kineticBars(insts)
  IN  normalizedBars(energies, maxEnergyOf(energies))

\* ------------ physics presets (vectorVisualizationService.ts, lines 310-674)
\* Objects live in a heap, a sequence of records; a reference is an index
\* into it, and Undefined stands for a missing optional field.
Undefined == 0

NewVector3(x, y, z) == [kind |-> "Vector3", x |-> x, y |-> y, z |-> z]
NewColor(hex) == [kind |-> "Color", hex |-> hex]
NewBody(position, velocity, mass, scale, color) ==
  [kind |-> "body", position |-> position, velocity |-> velocity,
   mass |-> mass, scale |-> scale, color |-> color]
NewArray(items) == [kind |-> "Array", items |-> items]
NewSettings(gravityStrength, gravityType, damping, timeScale, boundaryMode, boundaryRadius) ==
  [kind |-> "settings", gravityStrength |-> gravityStrength,
   gravityType |-> gravityType, damping |-> damping, timeScale |-> timeScale,
   boundaryMode |-> boundaryMode, boundaryRadius |-> boundaryRadius]
NewPreset(id, bodies, recommendedSettings) ==
  [kind |-> "preset", id |-> id, bodies |-> bodies,
   recommendedSettings |-> recommendedSettings]
NewResult(bodies, settings) ==
  [kind |-> "result", bodies |-> bodies, settings |-> settings]

\* the heap after module load: BINARY_PRESET (lines 381-410) at 11, and at 17
\* a caller's preset whose single body has no color (color is optional)
InitialHeap ==
  << NewVector3(Num[-1500], 0, 0),
     NewVector3(0, Num[600], 0),
     NewColor(16755200),
     NewBody(1, 2, Num[2000], Num[1200], 3),
     NewVector3(Num[1500], 0, 0),
     NewVector3(0, Num[-600], 0),
     NewColor(16764996),
     NewBody(5, 6, Num[2000], Num[1200], 7),
     NewArray(<<4, 8>>),
     NewSettings(Num[800], "newton", 0, One, "none", Num[10000]),
     NewPreset("binary", 9, 10),
     NewVector3(0, 0, 0),
     NewVector3(Num[500], 0, 0),
     NewBody(12, 13, One, One, Undefined),
     NewArray(<<14>>),
     NewSettings(One, "newton", 0, One, "bounce", Num[8000]),
     NewPreset("probe", 15, 16) >>
PresetRefs == { k \in 1..Len(InitialHeap) : InitialHeap[k].kind = "preset" }

\* x.clone() of a Vector3 or a Color: a new object with the same fields
cloneOf(h, ref) == Append(h, h[ref])

\* faulty variant: the position is passed on, not cloned
clonedBodySharedPosition(h, body, n) ==
  LET withColor == body.color # Undefined
      h1 == cloneOf(cloneOf(h, body.position), body.velocity)
      h2 == IF withColor THEN cloneOf(h1, body.color) ELSE h1
  IN  Append(h2, NewBody(body.position, n + 2, body.mass, body.scale,
                         IF withColor THEN n + 3 ELSE Undefined))

\* lines 662-668: the object literal of one body; n is the heap's length
clonedBody(h, body, n) ==
  LET withColor == body.color # Undefined
      h1 == cloneOf(cloneOf(h, body.position), body.velocity)
      h2 == IF withColor THEN cloneOf(h1, body.color) ELSE h1
  IN  Append(h2, NewBody(n + 1, n + 2, body.mass, body.scale,
                         IF withColor THEN n + 3 ELSE Undefined))

\* line 662: preset.bodies.map(...), item k onwards; out collects the new bodies
RECURSIVE mapBodies(_, _, _, _)
mapBodies(h, items, k, out) ==
  IF k > Len(items) THEN [heap |-> h, items |-> out]
  ELSE mapBodies(clonedBody(h, h[items[k]], Len(h)), items, k + 1,
                 Append(out, Len(clonedBody(h, h[items[k]], Len(h)))))

\* lines 670-673: the bodies array, the spread copy of the settings, the result
resultOf(m, settings) ==
  Append(Append(Append(m.heap, NewArray(m.items)), settings),
         NewResult(Len(m.heap) + 1, Len(m.heap) + 2))

\* lines 657-674: the heap after the call; the result is its last object
applyPreset(h, preset) ==
  resultOf(mapBodies(h, h[h[preset].bodies].items, 1, <<>>),
           h[h[preset].recommendedSettings])

\* ---------------------------------------- trails (trailService.ts, 1-237)
\* A THREE.Color by value; new THREE.Color(hex) takes each byte over 255.
Rgb(r, g, b) == [r |-> r, g |-> g, b |-> b]
ColorOfHex(hex) ==
  Rgb(FDiv[((hex \div 65536) % 256) * One, 255 * One],
      FDiv[((hex \div 256) % 256) * One, 255 * One],
      FDiv[(hex % 256) * One, 255 * One])
White == ColorOfHex(16777215)      \* 0xffffff, line 115
\* the optional instanceColor argument: <<color>> when given, NoColor when
\* undefined
NoColor == <<>>

\* Color.lerp(color, alpha): this.r += (color.r - this.r) * alpha, ...
colorLerp(c, d, alpha) ==
  Rgb(FAdd[c.r, FMul[FSub[d.r, c.r], alpha]],
      FAdd[c.g, FMul[FSub[d.g, c.g], alpha]],
      FAdd[c.b, FMul[FSub[d.b, c.b], alpha]])
\* Color.multiplyScalar(s)
colorMultiplyScalar(c, s) == Rgb(FMul[c.r, s], FMul[c.g, s], FMul[c.b, s])

\* a store into a Float32Array keeps fewer significant bits than a number
Float32Bits == MantBits - 3
fround[q \in Int] ==
  IF ~Finite(q) \/ BitLen[Abs[q]] <= Float32Bits THEN q
  ELSE Sgn[q] * RoundHalfEven[Abs[q], 2^(BitLen[Abs[q]] - Float32Bits)]
              * 2^(BitLen[Abs[q]] - Float32Bits)

\* lines 38-49
DEFAULT_TRAIL_CONFIG ==
  [enabled |-> TRUE, length |-> 100, width |-> 2, fade |-> TRUE,
   colorMode |-> "velocity", customColor |-> ColorOfHex(65535),
   velocityColors |-> [slow |-> ColorOfHex(26367), fast |-> ColorOfHex(16724736)]]

\* a Map, as the function from its keys to their values
EmptyMap == [k \in {} |-> 0]
mapHas(m, k) == k \in DOMAIN m
mapSet(m, k, v) == [x \in DOMAIN m \cup {k} |-> IF x = k THEN v ELSE m[x]]
mapDelete(m, k) == [x \in DOMAIN m \ {k} |-> m[x]]

\* lines 54-60
createTrailSystem ==
  [geometries |-> EmptyMap, lines |-> EmptyMap, materials |-> EmptyMap]

\* scene.children without the line of that name (Object3D.remove)
sceneRemove(scene, name) == SelectSeq(scene, LAMBDA n : n # name)

\* faulty variant: the line is hidden and kept
removeTrailHidesLine(instanceId, trailSystem, scene) ==
  [trailSystem |->
     [lines |-> IF mapHas(trailSystem.lines, instanceId)
                THEN [trailSystem.lines EXCEPT ![instanceId].visible = FALSE]
                ELSE trailSystem.lines,
      geometries |-> mapDelete(trailSystem.geometries, instanceId),
      materials |-> mapDelete(trailSystem.materials, instanceId)],
   scene |-> scene]

\* lines 163-185; dispose() frees GPU buffers and leaves no state behind
removeTrail(instanceId, trailSystem, scene) ==
  [trailSystem |->
     [lines |-> mapDelete(trailSystem.lines, instanceId),
      geometries |-> mapDelete(trailSystem.geometries, instanceId),
      materials |-> mapDelete(trailSystem.materials, instanceId)],
   scene |-> IF mapHas(trailSystem.lines, instanceId)
             THEN sceneRemove(scene, trailSystem.lines[instanceId].name)
             ELSE scene]

\* faulty variant: the maps are cleared and the lines stay in the scene
clearAllTrailsLeavesScene(trailSystem, scene) ==
  [trailSystem |-> createTrailSystem, scene |-> scene]

\* lines 190-204
clearAllTrails(trailSystem, scene) ==
  [trailSystem |-> createTrailSystem,
   scene |-> SelectSeq(scene, LAMBDA n :
               \A id \in DOMAIN trailSystem.lines : trailSystem.lines[id].name # n)]

\* lines 209-216
setTrailsVisible(trailSystem, visible) ==
  [trailSystem EXCEPT !.lines =
     [id \in DOMAIN trailSystem.lines |->
        [trailSystem.lines[id] EXCEPT !.visible = visible]]]

\* lines 91-94: Math.min and Math.max of the points' speeds (k onwards)
RECURSIVE minVelocity(_, _, _)
minVelocity(trailPoints, k, best) ==
  IF k > Len(trailPoints) THEN best
  ELSE minVelocity(trailPoints, k + 1,
                   IF FLt[trailPoints[k].velocity, best]
                   THEN trailPoints[k].velocity ELSE best)
RECURSIVE maxVelocity(_, _, _)
maxVelocity(trailPoints, k, best) ==
  IF k > Len(trailPoints) THEN best
  ELSE maxVelocity(trailPoints, k + 1,
                   IF FGt[trailPoints[k].velocity, best]
                   THEN trailPoints[k].velocity ELSE best)

\* lines 121-122: 0.3 + (i / trailPoints.length) * 0.7, i counted from 0
fadeFactor(i, n) == FAdd[Num[300], FMul[FDiv[i * One, n * One], Num[700]]]

\* lines 102-117: the Color object the point is drawn with, before the fade
pickedColor(st, point, config, minVel, velRange) ==
  CASE config.colorMode = "velocity" ->
         colorLerp(st.slow, st.fast, FDiv[FSub[point.velocity, minVel], velRange])
    [] config.colorMode = "custom" -> st.customColor
    [] OTHER -> IF st.instanceColor = NoColor THEN White ELSE st.instanceColor[1]

\* lines 96-128, one point: st holds the caller's Color objects as the loop
\* has left them and the arrays filled so far; `color` is the point's colour
\* after the fade.  In 'custom' mode, and in 'inherit' mode with an
\* instanceColor, that colour is the caller's own object.
pointDrawn(st, point, config, color) ==
  [customColor |-> IF config.colorMode = "custom" THEN color ELSE st.customColor,
   slow |-> st.slow,
   fast |-> st.fast,
   instanceColor |->
     IF config.colorMode \notin {"velocity", "custom"} /\ st.instanceColor # NoColor
     THEN <<color>> ELSE st.instanceColor,
   positions |-> st.positions \o <<fround[point.position.x],
                                   fround[point.position.y],
                                   fround[point.position.z]>>,
   colors |-> st.colors \o <<fround[color.r], fround[color.g], fround[color.b]>>]

\* lines 119-123
faded(color, config, i, n) ==
  IF config.fade THEN colorMultiplyScalar(color, fadeFactor(i, n)) ELSE color

\* lines 96-128: trailPoints.forEach, from index i (counted from 0)
RECURSIVE forEachPoint(_, _, _, _, _, _)
forEachPoint(trailPoints, i, config, minVel, velRange, st) ==
  IF i >= Len(trailPoints) THEN st
  ELSE forEachPoint(trailPoints, i + 1, config, minVel, velRange,
         pointDrawn(st, trailPoints[i + 1], config,
                    faded(pickedColor(st, trailPoints[i + 1], config, minVel, velRange),
                          config, i, Len(trailPoints))))

\* lines 87-128: the filled arrays and the caller's colours after the loop
drawnPoints(trailPoints, config, instanceColor, minVel, maxVel) ==
  forEachPoint(trailPoints, 0, config, minVel, OrOne[FSub[maxVel, minVel]],
               [customColor |-> config.customColor,
                slow |-> config.velocityColors.slow,
                fast |-> config.velocityColors.fast,
                instanceColor |-> instanceColor,
                positions |-> <<>>, colors |-> <<>>])

\* lines 79-84 and 131-134: the geometry, got or created, with its attributes
geometryOf(trailSystem, instanceId, drawn) ==
  [(IF mapHas(trailSystem.geometries, instanceId)
    THEN trailSystem.geometries[instanceId]
    ELSE [position |-> <<>>, color |-> <<>>])
   EXCEPT !.position = drawn.positions, !.color = drawn.colors]

\* lines 136-147: the material, got or created
materialOf(trailSystem, instanceId, config) ==
  IF mapHas(trailSystem.materials, instanceId)
  THEN trailSystem.materials[instanceId]
  ELSE [vertexColors |-> TRUE, transparent |-> TRUE, opacity |-> Num[800],
        linewidth |-> config.width]

\* lines 149-157: the line, got or created
lineOf(trailSystem, instanceId) ==
  IF mapHas(trailSystem.lines, instanceId)
  THEN trailSystem.lines[instanceId]
  ELSE [name |-> "trail_" \o instanceId, visible |-> TRUE, frustumCulled |-> FALSE]

\* lines 79-157: the call that draws
drawTrail(instanceId, trailSystem, scene, config, drawn) ==
  [trailSystem |->
     [geometries |-> mapSet(trailSystem.geometries, instanceId,
                            geometryOf(trailSystem, instanceId, drawn)),
      materials |-> mapSet(trailSystem.materials, instanceId,
                           materialOf(trailSystem, instanceId, config)),
      lines |-> mapSet(trailSystem.lines, instanceId,
                       lineOf(trailSystem, instanceId))],
   scene |-> IF mapHas(trailSystem.lines, instanceId) THEN scene
             ELSE Append(scene, lineOf(trailSystem, instanceId).name),
   config |-> [config EXCEPT !.customColor = drawn.customColor,
                             !.velocityColors = [slow |-> drawn.slow,
                                                 fast |-> drawn.fast]],
   instanceColor |-> drawn.instanceColor]

\* lines 65-158: the trail system and scene after the call, and the caller's
\* config and instanceColor as the call leaves them
updateTrailGeometry(instanceId, trailPoints, trailSystem, scene, config, instanceColor) ==
  IF ~config.enabled \/ Len(trailPoints) < 2
  THEN [trailSystem |-> removeTrail(instanceId, trailSystem, scene).trailSystem,
        scene |-> removeTrail(instanceId, trailSystem, scene).scene,
        config |-> config,
        instanceColor |-> instanceColor]
  ELSE drawTrail(instanceId, trailSystem, scene, config,
                 drawnPoints(trailPoints, config, instanceColor,
                             minVelocity(trailPoints, 2, trailPoints[1].velocity),
                             maxVelocity(trailPoints, 2, trailPoints[1].velocity)))

\* faulty variant: the history grows without eviction
appendTrailPointUnbounded(trail, point, config) == Append(trail, point)

\* the recorder that feeds updateTrailGeometry: a point is appended, and the
\* oldest one evicted once the history exceeds config.length
appendTrailPoint(trail, point, config) ==
  IF Len(trail) + 1 > config.length
  THEN Tail(Append(trail, point))
  ELSE Append(trail, point)

\* ------------- story playback (features/GeologicalStory/index.ts, 69-259)
\* Times are ticks of performance.now().  state.progress is held as the
\* number k of ticks with progress = min(1, k / totalDuration); a keyframe's
\* time in [0, 1] is the fraction num / den.  The material and camera updates
\* (applyKeyframe, applyInterpolatedKeyframe, updateCamera) write to the
\* material only and are left out; onStart, onResume and onPause are
\* observers that return.
Null == 0
Keyframes ==
  << [num |-> 0, den |-> 1, label |-> "carbon"],
     [num |-> 1, den |-> 2, label |-> "pressure"],
     [num |-> 1, den |-> 1, label |-> "diamond"] >>

\* lines 88-104: the constructor; pending and requested are the browser's
\* side: the requestAnimationFrame callbacks not yet run or cancelled, and
\* the number of handles handed out so far
newStory(duration) ==
  [isPlaying |-> FALSE, isPaused |-> FALSE, progress |-> 0,
   currentKeyframeIndex |-> 0, currentLabel |-> Keyframes[1].label,
   elapsedTime |-> 0, totalDuration |-> duration,
   animationFrame |-> Null, lastTimestamp |-> 0,
   pending |-> {}, requested |-> 0]

\* line 258: this.animationFrame = requestAnimationFrame(this.animate)
requestFrame(st) ==
  [st EXCEPT !.pending = @ \cup {st.requested + 1},
             !.animationFrame = st.requested + 1,
             !.requested = @ + 1]

\* lines 139-142 and 150-153: cancelAnimationFrame of the stored handle
cancelFrame(st) ==
  IF st.animationFrame # Null
  THEN [st EXCEPT !.pending = @ \ {st.animationFrame}, !.animationFrame = Null]
  ELSE st

\* lines 265-273, as the index counted from 0
RECURSIVE findKeyframeIndex(_, _, _)
findKeyframeIndex(progress, duration, i) ==
  IF i < 0 THEN 0
  ELSE IF progress * Keyframes[i + 1].den >= Keyframes[i + 1].num * duration THEN i
  ELSE findKeyframeIndex(progress, duration, i - 1)

\* the control calls a handler may make; handlers of a call made from a
\* handler return without calling back
HandlerCalls == {"none", "play", "pause", "stop", "seek"}
Quiet == [onKeyframe |-> "none", onProgress |-> "none", onComplete |-> "none"]

\* lines 135-144
pause(st) ==
  IF ~st.isPlaying \/ st.isPaused THEN st
  ELSE cancelFrame([st EXCEPT !.isPaused = TRUE])

\* lines 149-164
stop(st) ==
  [cancelFrame(st) EXCEPT !.isPlaying = FALSE, !.isPaused = FALSE, !.progress = 0,
                          !.elapsedTime = 0, !.currentKeyframeIndex = 0,
                          !.currentLabel = Keyframes[1].label]

\* lines 170-177: the state seek leaves before it notifies
sought(st, progress) ==
  LET clamped == IF progress < 0 THEN 0
                 ELSE IF progress > st.totalDuration THEN st.totalDuration ELSE progress
      keyframeIndex == findKeyframeIndex(clamped, st.totalDuration, Len(Keyframes) - 1)
  IN  [st EXCEPT !.progress = clamped, !.elapsedTime = clamped,
                 !.currentKeyframeIndex = keyframeIndex,
                 !.currentLabel = Keyframes[keyframeIndex + 1].label]

\* lines 225-237: the clock is read, elapsedTime and progress advance, the
\* keyframe is looked up
advanced(st, t) ==
  LET elapsed == st.elapsedTime + (t - st.lastTimestamp)
  IN  [st EXCEPT !.lastTimestamp = t, !.elapsedTime = elapsed,
                 !.progress = IF elapsed > st.totalDuration THEN st.totalDuration
                              ELSE elapsed]
atKeyframe(st, keyframeIndex) ==
  [st EXCEPT !.currentKeyframeIndex = keyframeIndex,
             !.currentLabel = Keyframes[keyframeIndex + 1].label]

\* lines 117-128: play() up to its call of animate
started(st, t) ==
  [(IF st.isPaused THEN [st EXCEPT !.isPaused = FALSE]
    ELSE [st EXCEPT !.isPlaying = TRUE, !.progress = 0, !.elapsedTime = 0,
                    !.currentKeyframeIndex = 0])
   EXCEPT !.lastTimestamp = t]

RECURSIVE animate(_, _, _)
\* lines 114-130
play(st, t, handlers) ==
  IF st.isPlaying /\ ~st.isPaused THEN st
  ELSE animate(started(st, t), t, handlers)

\* a handler's body: the control call it makes, at time t
handlerRuns(call, st, t) ==
  CASE call = "play" -> play(st, t, Quiet)
    [] call = "pause" -> pause(st)
    [] call = "stop" -> stop(st)
    [] call = "seek" -> sought(st, 0)
    [] OTHER -> st

\* lines 169-186
seek(st, progress, t, handlers) ==
  handlerRuns(handlers.onProgress, sought(st, progress), t)

\* lines 222-259
animate(st, t, handlers) ==
  IF ~st.isPlaying \/ st.isPaused THEN st
  ELSE
    LET ticked == advanced(st, t)
        keyframeIndex == findKeyframeIndex(ticked.progress, st.totalDuration,
                                           Len(Keyframes) - 1)
        keyed == IF keyframeIndex # ticked.currentKeyframeIndex
                 THEN handlerRuns(handlers.onKeyframe, atKeyframe(ticked, keyframeIndex), t)
                 ELSE ticked
        notified == handlerRuns(handlers.onProgress, keyed, t)
    IN  IF notified.progress >= notified.totalDuration
        THEN handlerRuns(handlers.onComplete, [notified EXCEPT !.isPlaying = FALSE], t)
        ELSE requestFrame(notified)

\* ------------- velocity and force arrows (vectorVisualizationService.ts, 1-222)
\* lines 29-41; a colour is its hex number here, as getHex() gives it
DEFAULT_VECTOR_CONFIG ==
  [velocityEnabled |-> FALSE, velocityColor |-> 65416, velocityScale |-> Half,
   forceEnabled |-> FALSE, forceColor |-> 16746496, forceScale |-> Num[300],
   arrowHeadLength |-> Num[200], arrowHeadWidth |-> Num[100], lineWidth |-> 2]
TooShort == Num[10]            \* 0.01, lines 74 and 132

\* lines 46-51
createVectorSystem == [velocityArrows |-> EmptyMap, forceArrows |-> EmptyMap]

\* lines 64-72 and 122-130: the display is off
dropArrow(arrows, scene, instanceId) ==
  IF mapHas(arrows, instanceId)
  THEN [arrows |-> mapDelete(arrows, instanceId),
        scene |-> sceneRemove(scene, arrows[instanceId].name)]
  ELSE [arrows |-> arrows, scene |-> scene]

\* faulty variant: a too-short arrow is taken off the scene and kept in the map
hideArrowOffScene(arrows, scene, instanceId) ==
  IF mapHas(arrows, instanceId)
  THEN [arrows |-> [arrows EXCEPT ![instanceId].visible = FALSE],
        scene |-> sceneRemove(scene, arrows[instanceId].name)]
  ELSE [arrows |-> arrows, scene |-> scene]

\* lines 77-83 and 135-141: the vector is too short to draw
hideArrow(arrows, scene, instanceId) ==
  IF mapHas(arrows, instanceId)
  THEN [arrows |-> [arrows EXCEPT ![instanceId].visible = FALSE], scene |-> scene]
  ELSE [arrows |-> arrows, scene |-> scene]

\* lines 85-108 and 143-166: the arrow, created and added or updated in place
showArrow(arrows, scene, name, instanceId, position, direction, len, color, config) ==
  [arrows |->
     mapSet(arrows, instanceId,
       [name |-> IF mapHas(arrows, instanceId) THEN arrows[instanceId].name ELSE name,
        visible |-> TRUE, position |-> position, direction |-> direction,
        length |-> len,
        headLength |-> FMul[len, config.arrowHeadLength],
        headWidth |-> FMul[len, config.arrowHeadWidth],
        color |-> color]),
   scene |-> IF mapHas(arrows, instanceId) THEN scene ELSE Append(scene, name)]

\* the body the two update functions share: the guard on the display flag,
\* the guard on the scaled length, the arrow
updateArrow(arrows, scene, name, instanceId, position, vector, enabled, len, color, config) ==
  IF ~enabled THEN dropArrow(arrows, scene, instanceId)
  ELSE IF FLt[len, TooShort] THEN hideArrow(arrows, scene, instanceId)
  ELSE showArrow(arrows, scene, name, instanceId, position, normalize[vector], len,
                 color, config)

\* lines 56-109
updateVelocityVector(instanceId, position, velocity, vectorSystem, scene, config) ==
  LET r == updateArrow(vectorSystem.velocityArrows, scene, "velocity_" \o instanceId,
                       instanceId, position, velocity, config.velocityEnabled,
                       FMul[length[velocity], config.velocityScale],
                       config.velocityColor, config)
  IN  [vectorSystem |-> [vectorSystem EXCEPT !.velocityArrows = r.arrows],
       scene |-> r.scene]

\* lines 114-167
updateForceVector(instanceId, position, force, vectorSystem, scene, config) ==
  LET r == updateArrow(vectorSystem.forceArrows, scene, "force_" \o instanceId,
                       instanceId, position, force, config.forceEnabled,
                       FMul[length[force], config.forceScale],
                       config.forceColor, config)
  IN  [vectorSystem |-> [vectorSystem EXCEPT !.forceArrows = r.arrows],
       scene |-> r.scene]

\* lines 172-188
removeVectors(instanceId, vectorSystem, scene) ==
  LET v == dropArrow(vectorSystem.velocityArrows, scene, instanceId)
      f == dropArrow(vectorSystem.forceArrows, v.scene, instanceId)
  IN  [vectorSystem |-> [velocityArrows |-> v.arrows, forceArrows |-> f.arrows],
       scene |-> f.scene]

\* lines 193-202
clearAllVectors(vectorSystem, scene) ==
  [vectorSystem |-> createVectorSystem,
   scene |-> SelectSeq(scene, LAMBDA n :
               /\ \A id \in DOMAIN vectorSystem.velocityArrows :
                    vectorSystem.velocityArrows[id].name # n
               /\ \A id \in DOMAIN vectorSystem.forceArrows :
                    vectorSystem.forceArrows[id].name # n)]

\* lines 207-218
setVectorsVisible(vectorSystem, velocityVisible, forceVisible) ==
  [velocityArrows |->
     [id \in DOMAIN vectorSystem.velocityArrows |->
        [vectorSystem.velocityArrows[id] EXCEPT !.visible = velocityVisible]],
   forceArrows |->
     [id \in DOMAIN vectorSystem.forceArrows |->
        [vectorSystem.forceArrows[id] EXCEPT !.visible = forceVisible]]]

\* lines 183-191
DEFAULT_COLLISION_CONFIG ==
  [enabled |-> TRUE, mode |-> "bounce", elasticity |-> Num[800],
   effectEnabled |-> TRUE, effectDuration |-> 200,
   mergeThreshold |-> Num[100], scatterForce |-> Num[2000]]

\* ------------------------------------------------------------------ inputs
\* bodies the driver may hand over (InstancePhysics without its id)
Body(px, py, pz, vx, vy, vz, r, m) ==
  [position |-> Vec(Num[px], Num[py], Num[pz]),
   velocity |-> Vec(Num[vx], Num[vy], Num[vz]),
   radius |-> Num[r], mass |-> Num[m]]

Bodies ==
  { Body(-1000, 0, 0,   1000, 0, 0,    500, 1000),
    Body( 1000, 0, 0,  -1000, 0, 0,    600, 1000),
    Body(    0, 0, 0,      0, 0, 0,    500, 2000),
    Body(    1, 0, 0,      0, 1000, 0, 500, 1000),
    Body(  600, 800, 0, 1000, 0, 0,    600, 1000),
    Body( 1080, 0, 0,      0, 0, 0,    600, 2000) }

Ids == <<"a", "b", "c", "d", "e", "f", "g", "h">>

WithIds(bs) ==
  [k \in 1..Len(bs) |->
     [id |-> Ids[k], position |-> bs[k].position, velocity |-> bs[k].velocity,
      radius |-> bs[k].radius, mass |-> bs[k].mass]]

InstanceArrays ==
  { WithIds(bs) : bs \in UNION { [1..n -> Bodies] : n \in 0..MaxInst } }

Configs ==
  { DEFAULT_COLLISION_CONFIG,
    [DEFAULT_COLLISION_CONFIG EXCEPT !.elasticity = One],
    [DEFAULT_COLLISION_CONFIG EXCEPT !.enabled = FALSE],
    [DEFAULT_COLLISION_CONFIG EXCEPT !.enabled = FALSE, !.mode = "merge"],
    [DEFAULT_COLLISION_CONFIG EXCEPT !.mode = "none"],
    [DEFAULT_COLLISION_CONFIG EXCEPT !.mode = "scatter"],
    [DEFAULT_COLLISION_CONFIG EXCEPT !.mode = "merge"] }

\* (cos, sin) of angles Math.random() * 2 * PI may take: 0 and PI/2
Angles == { [cos |-> One, sin |-> 0], [cos |-> 0, sin |-> One] }
Elasticities == { 0, Num[800], One }
Thresholds   == { Num[100], Num[500], One }
\* contact normals and overlaps of a direct call of a resolver
DirectNormals == { Vec(One, 0, 0), Vec(0, One, 0) }

\* ------------------------------------------------------------------- state
VARIABLES
  instances,   \* the driver's InstancePhysics[]
  pre,         \* the array as it was when the last call was made
  op,          \* the last call: "init" before any
  args,        \* its arguments
  ret,         \* its return value
  cbCalls,     \* the invocations of onCollision, in order: event and instances then
  now,         \* performance.now()
  cellSize,    \* SpatialHash.cellSize
  cells,       \* SpatialHash.cells: key -> bucket of instance objects
  inserted,    \* the instances inserted since the hash was last empty, in order
  dropped,     \* whether a clear() has thrown entries away
  heap,        \* the objects of the preset catalogue and of applyPreset's results
  applied,     \* the results applyPreset returned, in order, as the caller holds them
  touched,     \* the results (indexes of applied) the caller wrote to, one entry per write
  trails,      \* the recorded history of each instance id, oldest point first
  recorded,    \* every point ever recorded for each instance id, in order
  trailConfig, \* the caller's TrailConfig, with its Color objects by value
  instanceColors, \* the base Color object of each instance id, or NoColor
  trailSystem, \* the TrailSystem: its three maps
  scene,       \* scene.children: the names of the lines and arrows in the scene, in order
  vectorSystem, \* the VectorSystem: its two maps of arrows
  story        \* the GeologicalStoryMode object and the animation frames it has pending

hashVars == <<cellSize, cells, inserted, dropped>>
presetVars == <<heap, applied, touched>>
trailVars == <<trails, recorded, trailConfig, instanceColors, trailSystem, scene>>
vectorVars == <<vectorSystem>>
storyVars == <<story>>
vars == <<instances, pre, op, args, ret, cbCalls, now, hashVars, presetVars, trailVars,
          vectorVars, storyVars>>
\* what the collision service never touches
auxVars == <<hashVars, presetVars, trailVars, vectorVars, storyVars>>

NoArgs == [none |-> TRUE]

\* no SpatialHash in use: a default one, never filled
HashIdle ==
  /\ cellSize = Num[2000]
  /\ cells = EmptyCells
  /\ inserted = <<>>
  /\ dropped = FALSE
\* the preset catalogue as loaded, nothing applied
PresetIdle ==
  /\ heap = InitialHeap
  /\ applied = <<>>
  /\ touched = <<>>
\* the instance ids that have trails; "a" has a base colour (0xff6600)
TrailIds == {"a", "b"}
InstanceColors ==
  [id \in TrailIds |-> IF id = "a" THEN <<ColorOfHex(16737792)>> ELSE NoColor]
\* a fresh trail system and an empty scene
TrailIdle ==
  /\ trails = [id \in TrailIds |-> <<>>]
  /\ recorded = [id \in TrailIds |-> <<>>]
  /\ trailConfig = DEFAULT_TRAIL_CONFIG
  /\ instanceColors = InstanceColors
  /\ trailSystem = createTrailSystem
  /\ scene = <<>>
\* a fresh vector system
VectorIdle == vectorSystem = createVectorSystem
\* a story that was constructed and never played
MaxDuration == 4     \* the longest totalDuration, in ticks
StoryIdle == story = newStory(MaxDuration)
AuxIdle == HashIdle /\ PresetIdle /\ TrailIdle /\ VectorIdle /\ StoryIdle

Init ==
  /\ instances \in InstanceArrays
  /\ pre = instances
  /\ op = "init"
  /\ args = NoArgs
  /\ ret = <<>>
  /\ cbCalls = <<>>
  /\ now = 0
  /\ AuxIdle

\* the driver calls processCollisions(instances, config, onCollision?)
ProcessCollisions ==
  /\ op = "init"
  /\ \E config \in Configs, hasCallback \in BOOLEAN, rnd \in [1..2 -> Angles] :
       \E st \in { processCollisions(instances, config,
                      [hasCallback |-> hasCallback, rnd |-> rnd, now |-> now]) } :
           /\ config.mode # "scatter" => rnd = [k \in 1..2 |-> [cos |-> One, sin |-> 0]]
           /\ instances' = st.instances
           /\ ret' = st.events
           /\ cbCalls' = st.calls
           /\ args' = [config |-> config, hasCallback |-> hasCallback]
  /\ pre' = instances
  /\ op' = "processCollisions"
  /\ now' = now + 1
  /\ UNCHANGED auxVars

\* a direct call checkSphereSphereCollision(instances[0], instances[1])
CheckCollision ==
  /\ op = "init"
  /\ Len(instances) = 2
  /\ ret' = checkSphereSphereCollision(instances[1], instances[2])
  /\ op' = "checkSphereSphereCollision"
  /\ args' = NoArgs
  /\ pre' = instances
  /\ UNCHANGED <<instances, cbCalls, now, auxVars>>

\* a direct call resolveBounceCollision(a, b, normal, overlap, elasticity), with
\* the result of the check or with a contact normal the caller supplies
ResolveBounce ==
  /\ op = "init"
  /\ Len(instances) = 2
  /\ \E c \in { checkSphereSphereCollision(instances[1], instances[2]) } :
         \E e \in Elasticities,
            no \in (IF c.collided THEN {[normal |-> c.normal, overlap |-> c.overlap]} ELSE {})
                   \cup { [normal |-> n, overlap |-> 0] : n \in DirectNormals } :
           \E r \in { resolveBounceCollision(instances[1], instances[2],
                                             no.normal, no.overlap, e) } :
               /\ instances' = <<r.a, r.b>>
               /\ args' = [normal |-> no.normal, overlap |-> no.overlap, elasticity |-> e,
                           checked |-> c.collided /\ no.normal = c.normal
                                       /\ no.overlap = c.overlap]
  /\ op' = "resolveBounceCollision"
  /\ pre' = instances
  /\ ret' = <<>>
  /\ UNCHANGED <<cbCalls, now, auxVars>>

\* a direct call resolveScatterCollision(a, b, normal, overlap, scatterForce)
\* with the result of the check
ResolveScatter ==
  /\ op = "init"
  /\ Len(instances) = 2
  /\ \E c \in { checkSphereSphereCollision(instances[1], instances[2]) } :
         /\ c.collided
         /\ \E rnd \in Angles :
              \E r \in { resolveScatterCollision(instances[1], instances[2], c.normal,
                           c.overlap, DEFAULT_COLLISION_CONFIG.scatterForce, rnd) } :
                  /\ instances' = <<r.a, r.b>>
                  /\ args' = [normal |-> c.normal, overlap |-> c.overlap,
                              scatterForce |-> DEFAULT_COLLISION_CONFIG.scatterForce,
                              rnd |-> rnd, checked |-> TRUE]
  /\ op' = "resolveScatterCollision"
  /\ pre' = instances
  /\ ret' = <<>>
  /\ UNCHANGED <<cbCalls, now, auxVars>>

\* a direct call shouldMerge(a, b, threshold)
ShouldMerge ==
  /\ op = "init"
  /\ Len(instances) = 2
  /\ \E t \in Thresholds :
       /\ ret' = shouldMerge(instances[1], instances[2], t)
       /\ args' = [threshold |-> t]
  /\ op' = "shouldMerge"
  /\ pre' = instances
  /\ UNCHANGED <<instances, cbCalls, now, auxVars>>

Next ==
  \/ ProcessCollisions
  \/ CheckCollision
  \/ ResolveBounce
  \/ ResolveScatter
  \/ ShouldMerge

Spec == Init /\ [][Next]_vars

\* ------------------------------------------------ SpatialHash in use
\* positions around the cell borders; one lies just below the border at 0
HashBodies ==
  << Body(   -1,   0,    0,  0, 0, 0, 500, 1000),
     Body(  500,   0,    0,  0, 0, 0, 500, 1000),
     Body( 1900,   0,    0,  0, 0, 0, 500, 1000),
     Body( 2200, 300, -400,  0, 0, 0, 500, 1000),
     Body(-2500,   0,    0,  0, 0, 0, 500, 1000) >>

\* the arrays: the bodies at an ascending choice of at most MaxInst indexes
RECURSIVE Ascending(_, _)
Ascending(n, len) ==
  IF len = 0 THEN { <<>> }
  ELSE { Append(q, k) : q \in Ascending(n, len - 1), k \in 1..n }
HashArrays ==
  { WithIds([k \in 1..Len(q) |-> HashBodies[q[k]]]) :
      q \in { r \in UNION { Ascending(Len(HashBodies), len) : len \in 0..MaxInst } :
                \A k \in 1..(Len(r) - 1) : r[k] < r[k + 1] } }

\* new SpatialHash(cellSize): the default 2.0, or 1.0
CellSizes == { Num[2000], Num[1000] }

InitHash ==
  /\ instances \in HashArrays
  /\ pre = instances
  /\ op = "init"
  /\ args = NoArgs
  /\ ret = <<>>
  /\ cbCalls = <<>>
  /\ now = 0
  /\ cellSize \in CellSizes
  /\ cells = EmptyCells
  /\ inserted = <<>>
  /\ dropped = FALSE
  /\ PresetIdle
  /\ TrailIdle
  /\ VectorIdle
  /\ StoryIdle

\* hash.clear(), lines 399-401
HashClear ==
  /\ cells' = EmptyCells
  /\ inserted' = <<>>
  /\ dropped' = (dropped \/ inserted # <<>>)
  /\ op' = "clear"
  /\ args' = NoArgs
  /\ ret' = <<>>
  /\ UNCHANGED <<instances, pre, cbCalls, now, cellSize, presetVars, trailVars, vectorVars, storyVars>>

\* hash.insert(instances[k]); the hash holds at most MaxInst entries
HashInsert ==
  /\ Len(inserted) < MaxInst
  /\ \E k \in 1..Len(instances) :
       /\ cells' = hashInsert(cellSize, cells, instances[k], k)
       /\ inserted' = Append(inserted, k)
       /\ args' = [instance |-> k]
  /\ op' = "insert"
  /\ ret' = <<>>
  /\ UNCHANGED <<instances, pre, cbCalls, now, cellSize, dropped, presetVars, trailVars, vectorVars, storyVars>>

\* hash.getNearby(instances[k])
HashGetNearby ==
  /\ \E k \in 1..Len(instances) :
       /\ ret' = getNearby(cellSize, cells, instances, instances[k])
       /\ args' = [instance |-> k]
  /\ op' = "getNearby"
  /\ UNCHANGED <<instances, pre, cbCalls, now, hashVars, presetVars, trailVars, vectorVars, storyVars>>

NextHash ==
  \/ HashClear
  \/ HashInsert
  \/ HashGetNearby

SpecHash == InitHash /\ [][NextHash]_vars

\* ------------------------------------------------- energy diagnostics
\* bodies for the energy helpers: two unit masses at rest 2 apart, a body
\* 0.05 from one of them, a light fast body, a massless and a negative mass
EnergyBodies ==
  { Body(-1000,    0, 0,     0,    0,   0, 500,  1000),
    Body( 1000,    0, 0,     0,    0,   0, 500,  1000),
    Body( 1050,    0, 0,  1000,    0,   0, 500,  2000),
    Body(    0, 2000, 0,     0, -500, 500, 500,   500),
    Body(    0,    0, 0,  1000,    0,   0, 500,     0),
    Body(    0, -500, 0,  1000, 1000,   0, 500, -1000) }

EnergyArrays ==
  { WithIds(bs) : bs \in UNION { [1..n -> EnergyBodies] : n \in 0..MaxInst } }

\* the gravitational constant: the default 1.0, or 0.5
Gs == { One, Half }

InitEnergy ==
  /\ instances \in EnergyArrays
  /\ pre = instances
  /\ op = "init"
  /\ args = NoArgs
  /\ ret = <<>>
  /\ cbCalls = <<>>
  /\ now = 0
  /\ AuxIdle

\* calculateTotalEnergy(instances, G)
CalculateTotalEnergy ==
  /\ op = "init"
  /\ \E G \in Gs :
       /\ ret' = calculateTotalEnergy(instances, G)
       /\ args' = [G |-> G]
  /\ op' = "calculateTotalEnergy"
  /\ pre' = instances
  /\ UNCHANGED <<instances, cbCalls, now, auxVars>>

\* createEnergyBars(instances)
CreateEnergyBars ==
  /\ op = "init"
  /\ ret' = createEnergyBars(instances)
  /\ args' = NoArgs
  /\ op' = "createEnergyBars"
  /\ pre' = instances
  /\ UNCHANGED <<instances, cbCalls, now, auxVars>>

NextEnergy ==
  \/ CalculateTotalEnergy
  \/ CreateEnergyBars

SpecEnergy == InitEnergy /\ [][NextEnergy]_vars

\* ------------------------------------------------------ presets in use
MaxApply == 2      \* applyPreset calls in one behaviour
MaxWrites == 2     \* writes of the caller in one behaviour

InitPreset ==
  /\ instances = <<>>
  /\ pre = <<>>
  /\ op = "init"
  /\ args = NoArgs
  /\ ret = <<>>
  /\ cbCalls = <<>>
  /\ now = 0
  /\ HashIdle
  /\ PresetIdle
  /\ TrailIdle
  /\ VectorIdle
  /\ StoryIdle

\* applyPreset(preset); the caller keeps the result
ApplyPreset ==
  /\ Len(applied) < MaxApply
  /\ \E preset \in PresetRefs :
       \E h \in { applyPreset(heap, preset) } :
         /\ heap' = h
         /\ ret' = Len(h)
         /\ applied' = Append(applied, [result |-> Len(h), preset |-> preset,
                                         afterWrite |-> touched # <<>>])
         /\ args' = [preset |-> preset]
  /\ op' = "applyPreset"
  /\ UNCHANGED <<instances, pre, cbCalls, now, hashVars, touched, trailVars, vectorVars, storyVars>>

\* the bodies of a result or preset object, as the heap has them now
BodiesOf(h, bodiesRef) == h[bodiesRef].items
\* what one statement of the caller can write through a result: a component
\* of a position or velocity, a colour, a mass, a setting, or bodies.pop()
WritesTo(h, res) ==
  LET bs == BodiesOf(h, h[res].bodies)
  IN  { [h EXCEPT ![h[bs[k]].position].x = Num[9000]] : k \in 1..Len(bs) }
      \cup { [h EXCEPT ![h[bs[k]].velocity].y = Num[9000]] : k \in 1..Len(bs) }
      \cup { [h EXCEPT ![h[bs[k]].color].hex = 0] :
               k \in { i \in 1..Len(bs) : h[bs[i]].color # Undefined } }
      \cup { [h EXCEPT ![bs[k]].mass = Num[9000]] : k \in 1..Len(bs) }
      \cup { [h EXCEPT ![h[res].settings].damping = Half] }
      \cup { [h EXCEPT ![h[res].bodies].items = SubSeq(bs, 1, Len(bs) - 1)] :
               k \in { i \in 1..1 : bs # <<>> } }

\* the caller mutates a result it holds
MutateResult ==
  /\ Len(touched) < MaxWrites
  /\ \E r \in 1..Len(applied) :
       /\ \E h \in WritesTo(heap, applied[r].result) :
            /\ h # heap
            /\ heap' = h
       /\ touched' = Append(touched, r)
       /\ args' = [result |-> r]
  /\ op' = "mutate"
  /\ ret' = <<>>
  /\ UNCHANGED <<instances, pre, cbCalls, now, hashVars, applied, trailVars, vectorVars, storyVars>>

NextPreset ==
  \/ ApplyPreset
  \/ MutateResult

SpecPreset == InitPreset /\ [][NextPreset]_vars

\* ------------------------------------------------------- trails in use
MaxTicks == 4        \* ticks of the driver's clock in one behaviour
MaxTrailLen == 3     \* largest config.length
TrailLengths == 2..MaxTrailLen
ColorModes == {"inherit", "velocity", "custom"}
\* what a call overrides in the caller's config: the trail switched off, or
\* switched on with each fade and colour mode
TrailCallConfigs ==
  { [enabled |-> FALSE, fade |-> TRUE, colorMode |-> "velocity"] }
  \cup { [enabled |-> TRUE, fade |-> f, colorMode |-> m] :
           f \in BOOLEAN, m \in ColorModes }

\* the speed of the point recorded at tick t: 1, 1, 3, 2, 1, 1, 3, 2, ...
speedAt(t) == IF t % 4 \in {1, 2} THEN One ELSE IF t % 4 = 3 THEN 3 * One ELSE 2 * One
TrailPointAt(t) ==
  [position |-> Vec(Num[1000 * t], Half, 0), time |-> t, velocity |-> speedAt(t)]

InitTrail ==
  /\ instances = <<>>
  /\ pre = <<>>
  /\ op = "init"
  /\ args = NoArgs
  /\ ret = <<>>
  /\ cbCalls = <<>>
  /\ now = 0
  /\ HashIdle
  /\ PresetIdle
  /\ trails = [id \in TrailIds |-> <<>>]
  /\ recorded = [id \in TrailIds |-> <<>>]
  /\ trailConfig \in { [DEFAULT_TRAIL_CONFIG EXCEPT !.length = n] : n \in TrailLengths }
  /\ instanceColors = InstanceColors
  /\ trailSystem = createTrailSystem
  /\ scene = <<>>
  /\ VectorIdle
  /\ StoryIdle

\* the recorder appends this tick's point to the history of each instance
\* that is being tracked in this tick
RecordTrailPoint ==
  /\ now < MaxTicks
  /\ now' = now + 1
  /\ \E ids \in SUBSET TrailIds \ {{}} :
       /\ trails' = [id \in TrailIds |->
                       IF id \in ids
                       THEN appendTrailPoint(trails[id], TrailPointAt(now + 1), trailConfig)
                       ELSE trails[id]]
       /\ recorded' = [id \in TrailIds |->
                         IF id \in ids THEN Append(recorded[id], TrailPointAt(now + 1))
                         ELSE recorded[id]]
       /\ args' = [instanceIds |-> ids]
  /\ op' = "recordTrailPoint"
  /\ ret' = <<>>
  /\ UNCHANGED <<instances, pre, cbCalls, hashVars, presetVars, vectorVars,
                 trailConfig, instanceColors, trailSystem, scene, storyVars>>

\* updateTrailGeometry(id, trailPoints, trailSystem, scene,
\*                     {...trailConfig, enabled, fade, colorMode}, instanceColors[id])
\* with the instance's history, or with an empty array, as trailPoints;
\* the clock advances with every recorded point and every redraw
UpdateTrailGeometry ==
  /\ now < MaxTicks
  /\ now' = now + 1
  /\ \E id \in TrailIds, c \in TrailCallConfigs :
     \E trailPoints \in {trails[id], <<>>} :
       \E r \in { updateTrailGeometry(id, trailPoints, trailSystem, scene,
                     [trailConfig EXCEPT !.enabled = c.enabled, !.fade = c.fade,
                                         !.colorMode = c.colorMode],
                     instanceColors[id]) } :
         /\ trailSystem' = r.trailSystem
         /\ scene' = r.scene
         /\ trailConfig' = [trailConfig EXCEPT
                              !.customColor = r.config.customColor,
                              !.velocityColors = r.config.velocityColors]
         /\ instanceColors' = [instanceColors EXCEPT ![id] = r.instanceColor]
         /\ args' = [instanceId |-> id, enabled |-> c.enabled, fade |-> c.fade,
                     colorMode |-> c.colorMode, points |-> Len(trailPoints),
                     had |-> mapHas(trailSystem.lines, id)]
  /\ op' = "updateTrailGeometry"
  /\ ret' = <<>>
  /\ UNCHANGED <<instances, pre, cbCalls, hashVars, presetVars, vectorVars, trails, recorded, storyVars>>

\* removeTrail(id, trailSystem, scene)
RemoveTrail ==
  /\ \E id \in TrailIds :
       \E r \in { removeTrail(id, trailSystem, scene) } :
         /\ trailSystem' = r.trailSystem
         /\ scene' = r.scene
         /\ args' = [instanceId |-> id, had |-> mapHas(trailSystem.lines, id)]
  /\ op' = "removeTrail"
  /\ ret' = <<>>
  /\ UNCHANGED <<instances, pre, cbCalls, now, hashVars, presetVars, vectorVars,
                 trails, recorded, trailConfig, instanceColors, storyVars>>

\* clearAllTrails(trailSystem, scene)
ClearAllTrails ==
  /\ trailSystem' = clearAllTrails(trailSystem, scene).trailSystem
  /\ scene' = clearAllTrails(trailSystem, scene).scene
  /\ op' = "clearAllTrails"
  /\ args' = NoArgs
  /\ ret' = <<>>
  /\ UNCHANGED <<instances, pre, cbCalls, now, hashVars, presetVars, vectorVars,
                 trails, recorded, trailConfig, instanceColors, storyVars>>

\* setTrailsVisible(trailSystem, visible)
SetTrailsVisible ==
  /\ \E visible \in BOOLEAN :
       /\ trailSystem' = setTrailsVisible(trailSystem, visible)
       /\ args' = [visible |-> visible]
  /\ op' = "setTrailsVisible"
  /\ ret' = <<>>
  /\ UNCHANGED <<instances, pre, cbCalls, now, hashVars, presetVars, vectorVars,
                 trails, recorded, trailConfig, instanceColors, scene, storyVars>>

NextTrail ==
  \/ RecordTrailPoint
  \/ UpdateTrailGeometry
  \/ RemoveTrail
  \/ ClearAllTrails
  \/ SetTrailsVisible

SpecTrail == InitTrail /\ [][NextTrail]_vars

\* ------------------------------------------------------- arrows in use
\* what a call passes: a position and a vector that is too short when
\* scaled (0.01), just long enough (0.04), or of unit length
ArrowInputs ==
  { [position |-> ZeroVec, vector |-> Vec(Num[10], 0, 0)],
    [position |-> Vec(One, 0, 0), vector |-> Vec(0, Num[40], 0)],
    [position |-> Vec(One, 0, 0), vector |-> Vec(One, 0, 0)] }

InitVector ==
  /\ instances = <<>>
  /\ pre = <<>>
  /\ op = "init"
  /\ args = NoArgs
  /\ ret = <<>>
  /\ cbCalls = <<>>
  /\ now = 0
  /\ HashIdle
  /\ PresetIdle
  /\ TrailIdle
  /\ VectorIdle
  /\ StoryIdle

\* updateVelocityVector(id, position, velocity, vectorSystem, scene,
\*                      {...DEFAULT_VECTOR_CONFIG, velocityEnabled})
UpdateVelocityVector ==
  /\ \E id \in TrailIds, in \in ArrowInputs, enabled \in BOOLEAN :
       \E r \in { updateVelocityVector(id, in.position, in.vector, vectorSystem, scene,
                     [DEFAULT_VECTOR_CONFIG EXCEPT !.velocityEnabled = enabled]) } :
         /\ vectorSystem' = r.vectorSystem
         /\ scene' = r.scene
         /\ args' = [instanceId |-> id, vector |-> in.vector, enabled |-> enabled,
                     had |-> mapHas(vectorSystem.velocityArrows, id)]
  /\ op' = "updateVelocityVector"
  /\ ret' = <<>>
  /\ UNCHANGED <<instances, pre, cbCalls, now, hashVars, presetVars,
                 trails, recorded, trailConfig, instanceColors, trailSystem, storyVars>>

\* updateForceVector(id, position, force, vectorSystem, scene,
\*                   {...DEFAULT_VECTOR_CONFIG, forceEnabled})
UpdateForceVector ==
  /\ \E id \in TrailIds, in \in ArrowInputs, enabled \in BOOLEAN :
       \E r \in { updateForceVector(id, in.position, in.vector, vectorSystem, scene,
                     [DEFAULT_VECTOR_CONFIG EXCEPT !.forceEnabled = enabled]) } :
         /\ vectorSystem' = r.vectorSystem
         /\ scene' = r.scene
         /\ args' = [instanceId |-> id, vector |-> in.vector, enabled |-> enabled,
                     had |-> mapHas(vectorSystem.forceArrows, id)]
  /\ op' = "updateForceVector"
  /\ ret' = <<>>
  /\ UNCHANGED <<instances, pre, cbCalls, now, hashVars, presetVars,
                 trails, recorded, trailConfig, instanceColors, trailSystem, storyVars>>

\* removeVectors(id, vectorSystem, scene)
RemoveVectors ==
  /\ \E id \in TrailIds :
       \E r \in { removeVectors(id, vectorSystem, scene) } :
         /\ vectorSystem' = r.vectorSystem
         /\ scene' = r.scene
         /\ args' = [instanceId |-> id]
  /\ op' = "removeVectors"
  /\ ret' = <<>>
  /\ UNCHANGED <<instances, pre, cbCalls, now, hashVars, presetVars,
                 trails, recorded, trailConfig, instanceColors, trailSystem, storyVars>>

\* clearAllVectors(vectorSystem, scene)
ClearAllVectors ==
  /\ vectorSystem' = clearAllVectors(vectorSystem, scene).vectorSystem
  /\ scene' = clearAllVectors(vectorSystem, scene).scene
  /\ op' = "clearAllVectors"
  /\ args' = NoArgs
  /\ ret' = <<>>
  /\ UNCHANGED <<instances, pre, cbCalls, now, hashVars, presetVars,
                 trails, recorded, trailConfig, instanceColors, trailSystem, storyVars>>

\* setVectorsVisible(vectorSystem, velocityVisible, forceVisible)
SetVectorsVisible ==
  /\ \E velocityVisible \in BOOLEAN, forceVisible \in BOOLEAN :
       /\ vectorSystem' = setVectorsVisible(vectorSystem, velocityVisible, forceVisible)
       /\ args' = [velocityVisible |-> velocityVisible, forceVisible |-> forceVisible]
  /\ op' = "setVectorsVisible"
  /\ ret' = <<>>
  /\ UNCHANGED <<instances, pre, cbCalls, now, hashVars, presetVars, trailVars, storyVars>>

NextVector ==
  \/ UpdateVelocityVector
  \/ UpdateForceVector
  \/ RemoveVectors
  \/ ClearAllVectors
  \/ SetVectorsVisible

SpecVector == InitVector /\ [][NextVector]_vars

\* ------------------------------------------------- a story being played
MaxHandles == 4      \* animation-frame handles handed out in one behaviour
Durations == (MaxDuration - 1)..MaxDuration
\* what the handlers do in one call from outside: all return, or one of
\* them makes one control call
HandlerScripts ==
  {Quiet} \cup { [Quiet EXCEPT ![h] = c] :
                   h \in {"onKeyframe", "onProgress", "onComplete"},
                   c \in HandlerCalls \ {"none"} }
\* seek targets, as ticks of totalDuration: below 0, inside, beyond 1
SeekTargets == {-1, 2, MaxDuration + 1}

InitStory ==
  /\ instances = <<>>
  /\ pre = <<>>
  /\ op = "init"
  /\ args = NoArgs
  /\ ret = <<>>
  /\ cbCalls = <<>>
  /\ now = 0
  /\ HashIdle
  /\ PresetIdle
  /\ TrailIdle
  /\ VectorIdle
  /\ story \in { newStory(d) : d \in Durations }

\* the application calls play()
Play ==
  /\ story.requested < MaxHandles
  /\ \E handlers \in HandlerScripts :
       /\ story' = play(story, now, handlers)
       /\ args' = [handlers |-> handlers]
  /\ op' = "play"
  /\ ret' = <<>>
  /\ UNCHANGED <<instances, pre, cbCalls, now, hashVars, presetVars, trailVars, vectorVars>>

\* the application calls pause()
Pause ==
  /\ story' = pause(story)
  /\ op' = "pause"
  /\ args' = NoArgs
  /\ ret' = <<>>
  /\ UNCHANGED <<instances, pre, cbCalls, now, hashVars, presetVars, trailVars, vectorVars>>

\* the application calls stop()
Stop ==
  /\ story' = stop(story)
  /\ op' = "stop"
  /\ args' = NoArgs
  /\ ret' = <<>>
  /\ UNCHANGED <<instances, pre, cbCalls, now, hashVars, presetVars, trailVars, vectorVars>>

\* the application calls seek(progress)
Seek ==
  /\ story.requested < MaxHandles
  /\ \E progress \in SeekTargets, handlers \in HandlerScripts :
       /\ handlers.onKeyframe = "none" /\ handlers.onComplete = "none"
       /\ story' = seek(story, progress, now, handlers)
       /\ args' = [progress |-> progress, handlers |-> handlers]
  /\ op' = "seek"
  /\ ret' = <<>>
  /\ UNCHANGED <<instances, pre, cbCalls, now, hashVars, presetVars, trailVars, vectorVars>>

\* the browser runs the oldest pending animation-frame callback, one or two
\* ticks after the last step
AnimationFrame ==
  /\ story.pending # {}
  /\ story.requested < MaxHandles
  /\ \E dt \in 1..2, handlers \in HandlerScripts :
       /\ now + dt <= MaxTicks
       /\ now' = now + dt
       /\ LET handle == CHOOSE h \in story.pending : \A g \in story.pending : h <= g
          IN  /\ story' = animate([story EXCEPT !.pending = @ \ {handle}], now + dt, handlers)
              /\ args' = [handle |-> handle, handlers |-> handlers]
  /\ op' = "animate"
  /\ ret' = <<>>
  /\ UNCHANGED <<instances, pre, cbCalls, hashVars, presetVars, trailVars, vectorVars>>

NextStory ==
  \/ Play
  \/ Pause
  \/ Stop
  \/ Seek
  \/ AnimationFrame

SpecStory == InitStory /\ [][NextStory]_vars

\* ------------------------------------------- degenerate masses (zero mass)
\* pairs of which one or both instances have mass 0
ZeroMassBodies ==
  { Body(    0, 0, 0,      0, 0, 0,    500,    0),
    Body(  600, 0, 0,  -1000, 0, 0,    500,    0),
    Body( -600, 0, 0,   1000, 0, 0,    500, 1000),
    Body(    0, 700, 0,    0, 1000, 0, 500,    0),
    Body(  300, 400, 0,  500, 0, 0,    600, 2000) }

ZeroMassArrays ==
  { a \in { WithIds(bs) : bs \in [1..2 -> ZeroMassBodies] } :
      a[1].mass = 0 \/ a[2].mass = 0 }

InitZeroMass ==
  /\ instances \in ZeroMassArrays
  /\ pre = instances
  /\ op = "init"
  /\ args = NoArgs
  /\ ret = <<>>
  /\ cbCalls = <<>>
  /\ now = 0
  /\ AuxIdle

NextResolve ==
  \/ ResolveBounce
  \/ ResolveScatter

SpecZeroMass == InitZeroMass /\ [][NextResolve]_vars

\* ------------------------------------------------------------ vocabulary
IndexOf(id) == CHOOSE k \in 1..Len(Ids) : Ids[k] = id
Max2(a, b) == IF a >= b THEN a ELSE b
ActiveCall ==
  /\ op = "processCollisions"
  /\ args.config.enabled
  /\ args.config.mode \in {"bounce", "scatter", "merge"}
\* the distance as the service computes it, and the exact squared distance
Dist(a, b) == length[subVectors[b.position, a.position]]
ExactDistSq(a, b) ==
  (b.position.x - a.position.x) * (b.position.x - a.position.x)
  + (b.position.y - a.position.y) * (b.position.y - a.position.y)
  + (b.position.z - a.position.z) * (b.position.z - a.position.z)
ExactDot(u, v) == u.x * v.x + u.y * v.y + u.z * v.z
Collides(a, b) == checkSphereSphereCollision(a, b).collided
\* the event of the pair at indexes (i, j) is in the list
HasEvent(evs, i, j) ==
  \E k \in 1..Len(evs) : evs[k].instanceA = Ids[i] /\ evs[k].instanceB = Ids[j]
\* pair (i, j) comes before pair (k, l) in the double loop
Before(i, j, k, l) == i < k \/ (i = k /\ j < l)

\* ------------------------------------------------------------------ claims

\* C1: processCollisions does nothing when config.enabled is false or the mode
\* is 'none': it returns no event, never invokes onCollision and leaves every
\* position and velocity as it was, overlapping instances included.
C1_DisabledIsNoOp ==
  (op = "processCollisions" /\ (~args.config.enabled \/ args.config.mode = "none"))
    => /\ ret = <<>>
       /\ cbCalls = <<>>
       /\ Len(instances) = Len(pre)
       /\ \A k \in 1..Len(pre) :
            /\ instances[k].position = pre[k].position
            /\ instances[k].velocity = pre[k].velocity

C1_Witness ==
  /\ op = "processCollisions"
  /\ ~args.config.enabled \/ args.config.mode = "none"
  /\ args.hasCallback
  /\ \E i, j \in 1..Len(pre) : i < j /\ Collides(pre[i], pre[j])

\* C2: checkSphereSphereCollision reports a collision exactly when
\* 0.001 < d < radiusA + radiusB; then overlap = (radiusA + radiusB) - d >= 0
\* and normal is the unit vector from A to B (unit up to rounding); otherwise
\* overlap is 0 and normal is the zero vector.
UnitTol == (One * One) \div 2^(MantBits - 3)
C2_CheckVerdict ==
  op = "checkSphereSphereCollision" =>
    LET d == Dist(pre[1], pre[2])
        combined == FAdd[pre[1].radius, pre[2].radius]
        diff == Vec(pre[2].position.x - pre[1].position.x,
                    pre[2].position.y - pre[1].position.y,
                    pre[2].position.z - pre[1].position.z)
        n == ret.normal
    IN  /\ ret.collided <=> (MinDist < d /\ d < combined)
        /\ ret.collided =>
             /\ ret.overlap = FSub[combined, d]
             /\ ret.overlap >= 0
             /\ Abs[ExactDot(n, n) - One * One] <= UnitTol
             /\ ExactDot(n, diff) > 0
             /\ \A k \in {"x", "y", "z"} : Sgn[n[k]] \in {0, Sgn[diff[k]]}
        /\ ~ret.collided => (ret.overlap = 0 /\ n = ZeroVec)
        /\ instances = pre

C2_Witness ==
  /\ op = "checkSphereSphereCollision"
  /\ ret.collided
  /\ ret.normal.x # 0 /\ ret.normal.y # 0

\* C3: equal masses, head-on along the contact normal, elasticity 1.0: one
\* resolveBounceCollision call exchanges the velocity components along the
\* normal (A (1,0,0), B (-1,0,0), normal (1,0,0) gives A (-1,0,0), B (1,0,0)).
C3_HeadOnExchange ==
  ( /\ op = "resolveBounceCollision"
    /\ args.elasticity = One
    /\ args.normal = Vec(One, 0, 0)
    /\ pre[1].mass = pre[2].mass
    /\ pre[1].velocity.x > 0 /\ pre[1].velocity.y = 0 /\ pre[1].velocity.z = 0
    /\ pre[2].velocity.x < 0 /\ pre[2].velocity.y = 0 /\ pre[2].velocity.z = 0
    /\ pre[1].position.x < pre[2].position.x )
  => /\ instances[1].velocity = pre[2].velocity
     /\ instances[2].velocity = pre[1].velocity

ResolvedCheckedPair ==
  /\ op \in {"resolveBounceCollision", "resolveScatterCollision"}
  /\ args.checked
C5_ExactlyTouching ==
  ResolvedCheckedPair =>
    LET r == instances[1].radius + instances[2].radius
    IN  ExactDistSq(instances[1], instances[2]) >= r * r

\* C5, amended: the centers are at least radiusA + radiusB - eps apart, eps
\* being four units in the last place of the largest coordinate or radius.
MaxCoord(a, b) ==
  Max2(Max2(Max2(Abs[a.position.x], Abs[a.position.y]),
            Max2(Abs[a.position.z], Abs[b.position.x])),
       Max2(Max2(Abs[b.position.y], Abs[b.position.z]), a.radius + b.radius))
SepEps(a, b) == 4 * Granule[MaxCoord(a, b)]
C5_TouchingWithinEps ==
  ResolvedCheckedPair =>
    LET r == instances[1].radius + instances[2].radius
        eps == SepEps(pre[1], pre[2])
    IN  /\ eps < r
        /\ ExactDistSq(instances[1], instances[2]) >= (r - eps) * (r - eps)
        /\ ExactDistSq(instances[1], instances[2]) <= (r + eps) * (r + eps)

C5_Witness ==
  /\ ResolvedCheckedPair
  /\ op = "resolveScatterCollision"
  /\ ExactDistSq(pre[1], pre[2]) < ExactDistSq(instances[1], instances[2])
  /\ instances[1].position.y # pre[1].position.y

\* C6: one processCollisions call emits at most one event per unordered pair
\* of instances, and no event pairs an instance with itself.
C6_OneEventPerPair ==
  op = "processCollisions" =>
    /\ \A k \in 1..Len(ret) : ret[k].instanceA # ret[k].instanceB
    /\ \A k, l \in 1..Len(ret) :
         k # l => {ret[k].instanceA, ret[k].instanceB}
                    # {ret[l].instanceA, ret[l].instanceB}

C6_Witness ==
  /\ op = "processCollisions"
  /\ Len(ret) = 3
  /\ ret[1].instanceA = ret[2].instanceA
  /\ ret[2].instanceB = ret[3].instanceB

\* C7: the returned events are in pair-iteration order (i ascending, then j
\* ascending) and instanceA is the lower-index instance of its pair.
C7_PairIterationOrder ==
  op = "processCollisions" =>
    /\ \A k \in 1..Len(ret) : IndexOf(ret[k].instanceA) < IndexOf(ret[k].instanceB)
    /\ \A k, l \in 1..Len(ret) :
         k < l => Before(IndexOf(ret[k].instanceA), IndexOf(ret[k].instanceB),
                         IndexOf(ret[l].instanceA), IndexOf(ret[l].instanceB))

C7_Witness ==
  /\ op = "processCollisions"
  /\ Len(ret) >= 2
  /\ ret[1].instanceA # ret[Len(ret)].instanceA

\* C8 as first stated: with collisions enabled and an active mode, every pair
\* colliding in the array as passed in gets an event, for three or more
\* instances as for two.
C8_EveryInitialCollision ==
  ActiveCall =>
    \A i, j \in 1..Len(pre) :
      (i < j /\ Collides(pre[i], pre[j])) => HasEvent(ret, i, j)

\* C8, amended: every pair colliding in the array as passed in gets an event
\* unless an earlier pair of the iteration that shares an instance with it was
\* resolved first (the loop tests each pair on the positions the earlier
\* resolutions left); so every colliding pair of a two-instance array does.
TouchedEarlier(evs, i, j) ==
  \E k \in 1..Len(evs) :
    /\ Before(IndexOf(evs[k].instanceA), IndexOf(evs[k].instanceB), i, j)
    /\ {IndexOf(evs[k].instanceA), IndexOf(evs[k].instanceB)} \cap {i, j} # {}
C8_EveryUntouchedCollision ==
  ActiveCall =>
    \A i, j \in 1..Len(pre) :
      (i < j /\ Collides(pre[i], pre[j]) /\ ~TouchedEarlier(ret, i, j))
        => HasEvent(ret, i, j)

C8_Witness ==
  /\ ActiveCall
  /\ Len(pre) = 3
  /\ Collides(pre[1], pre[2])
  /\ HasEvent(ret, 1, 2)
  /\ Collides(pre[1], pre[3])
  /\ ~HasEvent(ret, 1, 3)

\* C9: shouldMerge is true exactly when the distance between the centers is
\* strictly below (radiusA + radiusB) * threshold, false at equality, and it
\* modifies neither instance.
C9_MergeThreshold ==
  op = "shouldMerge" =>
    /\ ret <=> (Dist(pre[1], pre[2])
                  < FMul[FAdd[pre[1].radius, pre[2].radius], args.threshold])
    /\ instances = pre

C9_Witness ==
  /\ op = "shouldMerge"
  /\ Dist(pre[1], pre[2]) = FMul[FAdd[pre[1].radius, pre[2].radius], args.threshold]
  /\ Dist(pre[1], pre[2]) > 0
  /\ ret = FALSE

\* C10: in merge mode processCollisions changes positions only: velocity,
\* mass, radius and id of every instance, and the length and order of the
\* array, are as before.
C10_MergeMovesOnly ==
  (op = "processCollisions" /\ args.config.enabled /\ args.config.mode = "merge") =>
    /\ Len(instances) = Len(pre)
    /\ \A k \in 1..Len(pre) :
         /\ instances[k].id = pre[k].id
         /\ instances[k].velocity = pre[k].velocity
         /\ instances[k].mass = pre[k].mass
         /\ instances[k].radius = pre[k].radius

C10_Witness ==
  /\ op = "processCollisions" /\ args.config.enabled /\ args.config.mode = "merge"
  /\ Len(ret) >= 1
  /\ \E k \in 1..Len(pre) :
       instances[k].position # pre[k].position /\ pre[k].velocity # ZeroVec

\* C15: resolveBounceCollision and resolveScatterCollision floor the mass, so
\* that with an instance of mass 0 (one or both) nothing is divided by zero
\* and the velocities they leave are finite.
FiniteVec(v) == Finite(v.x) /\ Finite(v.y) /\ Finite(v.z)
C15_FiniteForZeroMass ==
  ( /\ op \in {"resolveBounceCollision", "resolveScatterCollision"}
    /\ pre[1].mass = 0 \/ pre[2].mass = 0 )
  => \A k \in 1..2 : FiniteVec(instances[k].velocity)

\* C18: resolveBounceCollision applies no impulse to a pair that is already
\* separating along the A-to-B contact normal (B's velocity along the normal
\* is greater than A's): both velocities are unchanged, and the pair is not
\* approaching afterwards.
C18_NoImpulseWhenSeparating ==
  ( /\ op = "resolveBounceCollision"
    /\ args.checked
    /\ FLt[dot[subVectors[pre[1].velocity, pre[2].velocity], args.normal], 0] )
  => /\ instances[1].velocity = pre[1].velocity
     /\ instances[2].velocity = pre[2].velocity
     /\ ~FGt[dot[subVectors[instances[1].velocity, instances[2].velocity],
                 args.normal], 0]

\* C19 as first stated: resolveBounceCollision leaves the total momentum
\* massA * velA + massB * velB exactly as it was.
MomentumShift(k) ==
  pre[1].mass * (instances[1].velocity[k] - pre[1].velocity[k])
  + pre[2].mass * (instances[2].velocity[k] - pre[2].velocity[k])
BounceOfPositiveMasses ==
  /\ op = "resolveBounceCollision"
  /\ pre[1].mass > 0 /\ pre[2].mass > 0
  /\ \A i \in 1..2 : FiniteVec(pre[i].velocity)
C19_MomentumExact ==
  BounceOfPositiveMasses => \A k \in {"x", "y", "z"} : MomentumShift(k) = 0

\* C19, amended: the total momentum is conserved up to rounding: each of its
\* components moves by at most two units in the last place of the largest
\* velocity component, times the sum of the masses.
MaxSpeed ==
  Max2(Max2(Max2(Abs[pre[1].velocity.x], Abs[pre[1].velocity.y]),
            Max2(Abs[pre[1].velocity.z], Abs[pre[2].velocity.x])),
       Max2(Max2(Max2(Abs[pre[2].velocity.y], Abs[pre[2].velocity.z]),
                 Max2(Abs[instances[1].velocity.x], Abs[instances[1].velocity.y])),
            Max2(Max2(Abs[instances[1].velocity.z], Abs[instances[2].velocity.x]),
                 Max2(Abs[instances[2].velocity.y], Abs[instances[2].velocity.z]))))
C19_MomentumWithinRounding ==
  BounceOfPositiveMasses =>
    /\ \A i \in 1..2 : FiniteVec(instances[i].velocity)
    /\ \A k \in {"x", "y", "z"} :
         Abs[MomentumShift(k)]
           <= 2 * Granule[MaxSpeed] * (pre[1].mass + pre[2].mass)

C19_Witness ==
  /\ BounceOfPositiveMasses
  /\ pre[1].mass # pre[2].mass
  /\ instances[1].velocity # pre[1].velocity
  /\ instances[2].velocity # pre[2].velocity
  /\ args.elasticity = Num[800]

\* C11: with cellSize at least twice the largest radius, once the hash holds
\* every instance of the array exactly once, every instance B within collision
\* range of A (distance < radiusA + radiusB) is in getNearby(A); A ranges
\* over all instances, so each of a pair is in the other's result.
Count(seq, x) == Cardinality({ i \in DOMAIN seq : seq[i] = x })
AllInsertedOnce == \A k \in 1..Len(instances) : Count(inserted, k) = 1
C11_CollidingPairsAreNearby ==
  ( /\ op = "getNearby"
    /\ AllInsertedOnce
    /\ \A k \in 1..Len(instances) : cellSize >= 2 * instances[k].radius )
  => \A b \in 1..Len(instances) :
       ( /\ b # args.instance
         /\ FLt[Dist(instances[args.instance], instances[b]),
                FAdd[instances[args.instance].radius, instances[b].radius]] )
       => Count(ret, b) >= 1

\* C20: once the hash holds every instance exactly once, each is in exactly
\* one bucket, the one keyed by the per-axis floor(coord / cellSize), and
\* getNearby(X) returns exactly the instances with another id whose cell
\* coordinates differ from X's by at most 1 on every axis, each once.
CellOf(k) ==
  getKey(cellSize, instances[k].position.x, instances[k].position.y,
         instances[k].position.z)
NeighbourCells(p, q) == \A ax \in 1..3 : Abs[p[ax] - q[ax]] <= 1
C20_ExactNeighbourhood ==
  AllInsertedOnce =>
    /\ \A k \in 1..Len(instances) : \A key \in DOMAIN cells :
         Count(cells[key], k) = IF key = CellOf(k) THEN 1 ELSE 0
    /\ \A k \in 1..Len(instances) : CellOf(k) \in DOMAIN cells
    /\ op = "getNearby" =>
         \A b \in 1..Len(instances) :
           Count(ret, b) =
             IF instances[b].id # instances[args.instance].id
                /\ NeighbourCells(CellOf(b), CellOf(args.instance))
             THEN 1 ELSE 0

\* C12: calculateTotalEnergy returns kinetic = the sum over the instances of
\* 0.5 * mass * |velocity|^2, potential = the sum over the unordered pairs of
\* -G * massA * massB / max(distance, 0.1) and total = kinetic + potential,
\* and modifies no instance; two unit masses at rest 2 apart with G = 1 give
\* 0, -0.5 and -0.5; a pair closer than 0.1 counts with the distance 0.1.
KineticOf(inst) == FMul[FMul[Half, inst.mass], lengthSq[inst.velocity]]
PotentialOf(a, b, G) ==
  FDiv[FMul[FMul[FNeg[G], a.mass], b.mass], FMax[Dist(b, a), Num[100]]]
RECURSIVE SumKinetic(_, _)
SumKinetic(insts, n) ==
  IF n = 0 THEN 0 ELSE FAdd[SumKinetic(insts, n - 1), KineticOf(insts[n])]
\* the pairs (i, j), i < j, in the order i ascending, then j ascending
PairsOf(n) ==
  LET RECURSIVE InOrder(_, _)
      InOrder(i, j) ==
        IF i > n THEN <<>>
        ELSE IF j > n THEN InOrder(i + 1, i + 2)
        ELSE <<(<<i, j>>)>> \o InOrder(i, j + 1)
  IN  InOrder(1, 2)
RECURSIVE SumPotential(_, _, _, _)
SumPotential(insts, G, ps, n) ==
  IF n = 0 THEN 0
  ELSE FAdd[SumPotential(insts, G, ps, n - 1),
            PotentialOf(insts[ps[n][1]], insts[ps[n][2]], G)]
UnitPairAtRest ==
  /\ Len(pre) = 2
  /\ pre[1].mass = One /\ pre[2].mass = One
  /\ pre[1].velocity = ZeroVec /\ pre[2].velocity = ZeroVec
  /\ ExactDistSq(pre[1], pre[2]) = 4 * One * One
C12_TotalEnergy ==
  op = "calculateTotalEnergy" =>
    /\ ret.kinetic = SumKinetic(pre, Len(pre))
    /\ ret.potential = SumPotential(pre, args.G, PairsOf(Len(pre)), Len(PairsOf(Len(pre))))
    /\ ret.total = FAdd[ret.kinetic, ret.potential]
    /\ instances = pre
    /\ (UnitPairAtRest /\ args.G = One) =>
         (ret.kinetic = 0 /\ ret.potential = -Half /\ ret.total = -Half)
    /\ (Len(pre) = 2 /\ ExactDistSq(pre[1], pre[2]) < Num[100] * Num[100]) =>
         ret.potential = FDiv[FMul[FMul[-args.G, pre[1].mass], pre[2].mass], Num[100]]
    /\ Finite(ret.kinetic) /\ Finite(ret.potential) /\ Finite(ret.total)

C12_Witness ==
  /\ op = "calculateTotalEnergy"
  /\ Len(pre) = 3
  /\ ret.kinetic > 0
  /\ ret.potential < 0
  /\ \E i, j \in 1..3 :
       i < j /\ ExactDistSq(pre[i], pre[j]) < Num[100] * Num[100]
             /\ pre[i].mass > 0 /\ pre[j].mass > 0

\* C17: createEnergyBars returns one entry per instance, in input order; for
\* an instance of non-negative mass normalized = kinetic / max(the largest
\* kinetic energy of all instances, 0.001), which lies in [0, 1]; the
\* denominator is never zero, also for an empty list or all velocities zero.
LargestKinetic(insts) ==
  IF insts = <<>> THEN NegInf
  ELSE CHOOSE m \in { KineticOf(insts[k]) : k \in 1..Len(insts) } :
         \A k \in 1..Len(insts) : KineticOf(insts[k]) <= m
C17_NormalizedBars ==
  op = "createEnergyBars" =>
    /\ Len(ret) = Len(pre)
    /\ Max2(LargestKinetic(pre), Num[1]) > 0
    /\ \A k \in 1..Len(pre) :
         /\ ret[k].id = pre[k].id
         /\ ret[k].kinetic = KineticOf(pre[k])
         /\ pre[k].mass >= 0 =>
              /\ ret[k].normalized
                   = FDiv[ret[k].kinetic, Max2(LargestKinetic(pre), Num[1])]
              /\ 0 <= ret[k].normalized /\ ret[k].normalized <= One

C17_Witness ==
  /\ op = "createEnergyBars"
  /\ Len(pre) = 3
  /\ \A k \in 1..3 : pre[k].mass >= 0
  /\ \E k \in 1..3 : ret[k].normalized = One
  /\ \E k \in 1..3 : 0 < ret[k].normalized /\ ret[k].normalized < One
  /\ \E k \in 1..3 : ret[k].normalized = 0

\* C13: applyPreset never aliases preset state: the results of two calls
\* share no object with each other or with the preset catalogue (positions,
\* velocities, colours, bodies, arrays, settings), so whatever the caller
\* writes through one result, the catalogue stays as loaded and every result
\* not written to still holds the preset's initial conditions, a result
\* obtained after the writes included.
ObjectsOfBodies(h, bodiesRef) ==
  {bodiesRef}
  \cup { BodiesOf(h, bodiesRef)[k] : k \in 1..Len(BodiesOf(h, bodiesRef)) }
  \cup UNION { { h[BodiesOf(h, bodiesRef)[k]].position,
                 h[BodiesOf(h, bodiesRef)[k]].velocity,
                 h[BodiesOf(h, bodiesRef)[k]].color } \ {Undefined} :
               k \in 1..Len(BodiesOf(h, bodiesRef)) }
ObjectsOfResult(h, res) == {res, h[res].settings} \cup ObjectsOfBodies(h, h[res].bodies)
ObjectsOfPreset(h, p) ==
  {p, h[p].recommendedSettings} \cup ObjectsOfBodies(h, h[p].bodies)
\* the initial conditions behind a bodies array, by value
ConditionsOf(h, bodiesRef) ==
  [k \in 1..Len(BodiesOf(h, bodiesRef)) |->
     LET b == h[BodiesOf(h, bodiesRef)[k]]
     IN  [position |-> h[b.position], velocity |-> h[b.velocity],
          mass |-> b.mass, scale |-> b.scale,
          color |-> IF b.color = Undefined THEN Undefined ELSE h[b.color].hex]]
C13_NoAliasing ==
  /\ \A k \in 1..Len(InitialHeap) : heap[k] = InitialHeap[k]
  /\ \A i \in 1..Len(applied) :
       /\ \A p \in PresetRefs :
            ObjectsOfResult(heap, applied[i].result)
              \cap ObjectsOfPreset(InitialHeap, p) = {}
       /\ \A j \in 1..Len(applied) :
            i # j => ObjectsOfResult(heap, applied[i].result)
                       \cap ObjectsOfResult(heap, applied[j].result) = {}
       /\ (\A w \in 1..Len(touched) : touched[w] # i) =>
            /\ ConditionsOf(heap, heap[applied[i].result].bodies)
                 = ConditionsOf(InitialHeap, InitialHeap[applied[i].preset].bodies)
            /\ heap[heap[applied[i].result].settings]
                 = InitialHeap[InitialHeap[applied[i].preset].recommendedSettings]

C13_Witness ==
  /\ Len(applied) = 2
  /\ applied[1].preset = applied[2].preset
  /\ InitialHeap[applied[1].preset].id = "binary"
  /\ applied[2].afterWrite
  /\ touched = <<1>>
  /\ ConditionsOf(heap, heap[applied[1].result].bodies)[1].position.x = Num[9000]
  /\ ConditionsOf(heap, heap[applied[2].result].bodies)[1].position.x # Num[9000]

\* C14: trail history is bounded with FIFO eviction: after any sequence of
\* appends an instance's trail never holds more than config.length points,
\* and once more than config.length points were appended it holds exactly
\* the most recent config.length of them, oldest first.
LastOf(seq, n) ==
  IF Len(seq) <= n THEN seq ELSE SubSeq(seq, Len(seq) - n + 1, Len(seq))
InScene(id) == \E k \in 1..Len(scene) : scene[k] = "trail_" \o id
RemovingCall ==
  /\ op = "updateTrailGeometry"
  /\ ~args.enabled \/ args.points < 2
C16_RemovedNotHidden ==
  RemovingCall =>
    /\ ~mapHas(trailSystem.lines, args.instanceId)
    /\ ~mapHas(trailSystem.geometries, args.instanceId)
    /\ ~mapHas(trailSystem.materials, args.instanceId)
    /\ ~InScene(args.instanceId)

C16_Witness ==
  /\ RemovingCall
  /\ args.had
  /\ args.enabled
  /\ args.points < 2
  /\ ~InScene(args.instanceId)

\* C21: when onCollision is supplied, processCollisions invokes it exactly
\* once per emitted event, after that pair's resolution has been applied and
\* before the next pair is tested: the events passed equal the returned
\* list in the same order, each invocation sees the instances as the
\* previous invocation saw them (the input array, for the first) except
\* that its own pair has been resolved, and the last one sees the final
\* array.
SeenBefore(k) == IF k = 1 THEN pre ELSE cbCalls[k - 1].instances
PairResolvedAt(k) ==
  LET i == IndexOf(cbCalls[k].event.instanceA)
      j == IndexOf(cbCalls[k].event.instanceB)
      before == SeenBefore(k)
      seen == cbCalls[k].instances
  IN  /\ \A m \in 1..Len(pre) : m \notin {i, j} => seen[m] = before[m]
      /\ \E rnd \in Angles :
           LET r == resolveByMode(before[i], before[j],
                                  checkSphereSphereCollision(before[i], before[j]),
                                  args.config, rnd)
           IN  seen[i] = r.a /\ seen[j] = r.b
C21_CallbackPerEvent ==
  (op = "processCollisions" /\ args.hasCallback) =>
    /\ Len(cbCalls) = Len(ret)
    /\ \A k \in 1..Len(cbCalls) : cbCalls[k].event = ret[k] /\ PairResolvedAt(k)
    /\ cbCalls # <<>> => cbCalls[Len(cbCalls)].instances = instances

C21_Witness ==
  /\ op = "processCollisions"
  /\ args.hasCallback
  /\ Len(ret) >= 2
  /\ ret[1] # ret[2]
  /\ cbCalls[1].instances # pre
  /\ cbCalls[2].instances # cbCalls[1].instances

\* C22: resolveScatterCollision applies the random kick antisymmetrically:
\* what A's velocity gains beyond its normal push, B's velocity loses (up to
\* rounding), so velA + velB changes only by the normal push; and for
\* scatterForce > 0 the normal push moves A's velocity against the A-to-B
\* normal and B's velocity along it.
ScatterCall ==
  /\ op = "resolveScatterCollision"
  /\ args.scatterForce > 0
ScatterForceOnA == FDiv[args.scatterForce, FMax[pre[1].mass, MassFloor]]
ScatterForceOnB ==
  FDiv[ScatterForceOnA, FMax[FDiv[pre[2].mass, pre[1].mass], MassFloor]]
ScatterKick ==
  multiplyScalar[Vec(args.rnd.cos, FMul[args.rnd.sin, Half], args.rnd.sin),
                 FMul[ScatterForceOnA, KickScale]]
\* what each velocity gained, component k, with the normal push taken out
GainOfA(k) ==
  instances[1].velocity[k] - pre[1].velocity[k]
    + multiplyScalar[args.normal, ScatterForceOnA][k]
GainOfB(k) ==
  instances[2].velocity[k] - pre[2].velocity[k]
    - multiplyScalar[args.normal, ScatterForceOnB][k]
\* the largest magnitude a velocity component passes through
ScatterMagnitude ==
  MaxSpeed + Max2(Abs[ScatterForceOnA], Abs[ScatterForceOnB])
C22_ScatterKick ==
  ScatterCall =>
    /\ \A i \in 1..2 : FiniteVec(instances[i].velocity)
    /\ \A k \in {"x", "y", "z"} :
         Abs[GainOfA(k) + GainOfB(k)] <= 2 * Granule[ScatterMagnitude]
    /\ ExactDot(subVectors[subVectors[instances[1].velocity, pre[1].velocity],
                           ScatterKick], args.normal) < 0
    /\ ExactDot(addVectors[subVectors[instances[2].velocity, pre[2].velocity],
                           ScatterKick], args.normal) > 0

\* C23: with config.fade on, the fade factor updateTrailGeometry applies
\* grows linearly with the position in the history from 0.3 for the oldest
\* point (index 0) to 1.0 for the newest (last index), for every trail of 2
\* or more points.  The factor is read off a trail drawn in 'inherit' mode
\* without an instanceColor: each point is white times its factor.
FadedWhiteCall ==
  /\ op = "updateTrailGeometry"
  /\ args.enabled /\ args.points >= 2
  /\ args.fade /\ args.colorMode = "inherit"
  /\ instanceColors[args.instanceId] = NoColor
\* the factor point i (from 0) was drawn with, and the claim's factor for it
FactorDrawn(i) == trailSystem.geometries[args.instanceId].color[3 * i + 1]
LinearFactor(i, n) ==
  FAdd[Num[300], FMul[FDiv[i * One, (n - 1) * One], Num[700]]]
FadeTol == 2 * 2^(FracBits - Float32Bits)
C23_FadeOldestToNewest ==
  FadedWhiteCall =>
    \A i \in 0..(args.points - 1) :
      Abs[FactorDrawn(i) - LinearFactor(i, args.points)] <= FadeTol

\* C24: updateVelocityVector and updateForceVector treat a too-short vector
\* as nothing to draw: with the display on and |vector| * scale < 0.01 no
\* arrow is created, and an existing arrow is made invisible and stays
\* registered (and in the scene); with the display off the instance's arrow
\* is removed from the map and from the scene; so after any sequence of
\* update, removeVectors and clearAllVectors calls an arrow is in the scene
\* if and only if it is in its map.
NamedInScene(name) == \E k \in 1..Len(scene) : scene[k] = name
ArrowsOfCall ==
  IF op = "updateVelocityVector" THEN vectorSystem.velocityArrows
  ELSE vectorSystem.forceArrows
NameOfCall ==
  (IF op = "updateVelocityVector" THEN "velocity_" ELSE "force_") \o args.instanceId
ScaleOfCall ==
  IF op = "updateVelocityVector" THEN DEFAULT_VECTOR_CONFIG.velocityScale
  ELSE DEFAULT_VECTOR_CONFIG.forceScale
UpdateCall == op \in {"updateVelocityVector", "updateForceVector"}
TooShortCall ==
  /\ UpdateCall
  /\ args.enabled
  /\ FMul[length[args.vector], ScaleOfCall] < TooShort
C24_ArrowsInSceneAndMap ==
  /\ \A id \in TrailIds :
       /\ NamedInScene("velocity_" \o id) <=> mapHas(vectorSystem.velocityArrows, id)
       /\ NamedInScene("force_" \o id) <=> mapHas(vectorSystem.forceArrows, id)
  /\ \A k, l \in 1..Len(scene) : scene[k] = scene[l] => k = l
  /\ TooShortCall =>
       /\ mapHas(ArrowsOfCall, args.instanceId) <=> args.had
       /\ args.had => /\ ~ArrowsOfCall[args.instanceId].visible
                       /\ NamedInScene(NameOfCall)
  /\ (UpdateCall /\ ~args.enabled) =>
       /\ ~mapHas(ArrowsOfCall, args.instanceId)
       /\ ~NamedInScene(NameOfCall)

C24_Witness ==
  /\ TooShortCall
  /\ op = "updateForceVector"
  /\ args.had
  /\ args.vector # ZeroVec
  /\ mapHas(vectorSystem.velocityArrows, args.instanceId)
  /\ Len(scene) >= 3

\* C25: processCollisions prevents overlap for the whole tick: when it
\* returns in bounce, scatter or merge mode, no pair for which it emitted an
\* event is still overlapping, three or more mutually overlapping instances
\* included.  A pair counts as overlapping when its centers are closer than
\* radiusA + radiusB by more than the rounding allowance of one separation.
StillOverlapping(a, b) ==
  LET r == a.radius + b.radius
      eps == SepEps(a, b)
  IN  ExactDistSq(a, b) < (r - eps) * (r - eps)
C25_NoOverlapAfterTick ==
  ActiveCall =>
    \A k \in 1..Len(ret) :
      ~StillOverlapping(instances[IndexOf(ret[k].instanceA)],
                        instances[IndexOf(ret[k].instanceB)])

\* C26: in merge mode the driver can still decide to merge after the
\* collision pass: for a pair resolved by processCollisions in merge mode and
\* moved by no other pair, shouldMerge(A, B, mergeThreshold) is true when
\* evaluated on the instances processCollisions leaves, for the default
\* mergeThreshold 0.1.
MergeCall == ActiveCall /\ args.config.mode = "merge"
ResolvedAlone(k) ==
  \A l \in 1..Len(ret) :
    l # k => {ret[l].instanceA, ret[l].instanceB}
               \cap {ret[k].instanceA, ret[k].instanceB} = {}
EnergyBase == 2^16
SpeedSq(v) == v.x * v.x + v.y * v.y + v.z * v.z
MassTimes(m, sq) ==
  LET low == m * (sq % EnergyBase)
  IN  [hi |-> m * (sq \div EnergyBase) + low \div EnergyBase, lo |-> low % EnergyBase]
TwiceKinetic(insts) ==
  LET ea == MassTimes(insts[1].mass, SpeedSq(insts[1].velocity))
      eb == MassTimes(insts[2].mass, SpeedSq(insts[2].velocity))
  IN  [hi |-> ea.hi + eb.hi + (ea.lo + eb.lo) \div EnergyBase,
       lo |-> (ea.lo + eb.lo) % EnergyBase]
AtMost(e, f) == e.hi < f.hi \/ (e.hi = f.hi /\ e.lo <= f.lo)
EnergyTol ==
  [hi |-> (((pre[1].mass + pre[2].mass) * MaxSpeed) \div EnergyBase) * 4 * Granule[MaxSpeed],
   lo |-> 0]
Plus(e, f) ==
  [hi |-> e.hi + f.hi + (e.lo + f.lo) \div EnergyBase, lo |-> (e.lo + f.lo) % EnergyBase]
TrailNames(lines) == { lines[id].name : id \in DOMAIN lines }
TrailMapsAgree ==
  /\ DOMAIN trailSystem.geometries = DOMAIN trailSystem.lines
  /\ DOMAIN trailSystem.materials = DOMAIN trailSystem.lines
  /\ \A id \in DOMAIN trailSystem.lines : trailSystem.lines[id].name = "trail_" \o id
  /\ { scene[k] : k \in 1..Len(scene) } = TrailNames(trailSystem.lines)
  /\ Len(scene) = Cardinality(DOMAIN trailSystem.lines)
AllCleared ==
  op = "clearAllTrails" => trailSystem = createTrailSystem /\ scene = <<>>
OthersKept ==
  op' = "removeTrail" =>
    \A id \in TrailIds \ {args'.instanceId} :
      /\ mapHas(trailSystem'.lines, id) = mapHas(trailSystem.lines, id)
      /\ mapHas(trailSystem.lines, id) =>
           /\ trailSystem'.lines[id] = trailSystem.lines[id]
           /\ trailSystem'.geometries[id] = trailSystem.geometries[id]
           /\ trailSystem'.materials[id] = trailSystem.materials[id]
      /\ (\E k \in 1..Len(scene') : scene'[k] = "trail_" \o id) = InScene(id)
C28_TrailMapsAgree == [](TrailMapsAgree /\ AllCleared) /\ [][OthersKept]_vars

C28_Witness ==
  /\ op = "removeTrail"
  /\ args.had
  /\ ~mapHas(trailSystem.lines, args.instanceId)
  /\ \E id \in TrailIds \ {args.instanceId} :
       mapHas(trailSystem.materials, id) /\ InScene(id)

\* C29: updateTrailGeometry is read-only with respect to its colour inputs:
\* for every colorMode and with fade on or off, config.customColor,
\* config.velocityColors and the caller's instanceColor have the same value
\* after the call as before it.
ColoursKept ==
  op' = "updateTrailGeometry" =>
    /\ trailConfig'.customColor = trailConfig.customColor
    /\ trailConfig'.velocityColors = trailConfig.velocityColors
    /\ instanceColors' = instanceColors
C29_ColourInputsReadOnly == [][ColoursKept]_vars

\* C30: a GeologicalStoryMode runs at most one animation loop: after any
\* sequence of play, pause, stop and seek interleaved with animation-frame
\* firings, calls made from the onProgress, onKeyframe and onComplete
\* handlers included, at most one requestAnimationFrame callback is pending,
\* and no frame advances elapsedTime while the story is paused or stopped.
OneLoop == Cardinality(story.pending) <= 1
NoAdvanceAtRest ==
  (op' = "animate" /\ (~story.isPlaying \/ story.isPaused)) =>
    story'.elapsedTime = story.elapsedTime
C30_OneAnimationLoop == []OneLoop /\ [][NoAdvanceAtRest]_vars

====
